---------------------------- MODULE Spec2Model ----------------------------
(***************************************************************************)
(* A model of the timetable generator of Smart-Classroom-Timetable-        *)
(* Scheduler (src/advanced_timetable_generator.py): activity creation,     *)
(* greedy construction, hard/soft constraint evaluation, the genetic       *)
(* operators and the genetic loop, the local refinement and generate().    *)
(*                                                                         *)
(* Conventions.  An activity id, the string                                *)
(* "section_teacher_room_subject_classnum", is the tuple of its five       *)
(* fields, so that splitting on "_" is tuple indexing.  A TimeSlot is a    *)
(* record with its display start hour; equality of slots is SlotEq (day    *)
(* and period only), as TimeSlot.__eq__/__hash__ define it.  A Python dict *)
(* is a record [keys, val]: the keys in insertion order and the mapping.   *)
(* random.* calls are nondeterministic choices.  Scores are kept exact by  *)
(* scaling them with ScoreScale.                                           *)
(***************************************************************************)
EXTENDS Integers, Sequences, FiniteSets, TLC

VARIABLES
    pc,               \* position of the modelled call
    self,             \* the TimetableGenerator's fields (its inputs)
    activities,       \* greedy_assignment: the created activities, in scheduling order
    cursor,           \* greedy_assignment: index of the next activity to place
    schedule,         \* greedy_assignment: {activity_id: TimeSlot}
    teacher_schedule, \* greedy_assignment: teacher_id -> set of (day, period)
    room_schedule,    \* greedy_assignment: room_id -> set of (day, period)
    section_schedule, \* greedy_assignment: section_id -> set of (day, period)
    phases,           \* generate(): the phases run so far, in order
    entries,          \* generate(): the returned list of entries
    heap,             \* the schedule objects (dicts) alive, by object id
    population,       \* GA: the population, a list of references into heap
    fitness_scores,   \* GA: evaluate_population_fitness(population)
    violations,       \* validate_hard_constraints: the returned list
    generation,       \* GA: the loop counter of genetic_algorithm_optimization
    best_fitness,     \* GA: best fitness recorded so far
    best_individual,  \* GA: reference to the best individual (0: None)
    parents,          \* GA: tournament_selection's result, references
    child_pair,       \* GA: create_offspring: child1, child2 of the current pair
    offspring,        \* GA: create_offspring: the offspring so far, references
    offspring_fitness, \* GA: elitist_replacement: the fitness of the offspring
    optimized_schedule, \* GA: reference to the schedule returned (0: none yet)
    refined_schedule, \* refinement: the schedule being refined
    attempt,          \* refinement: improvement attempts finished
    ref_cursor,       \* refinement: index of the next activity of the pass
    improved,         \* refinement: the flag of the current attempt
    best_score,       \* refinement: the score found for the schedule by the
                      \*   latest find_best_slot_for_activity, before its move
    prev_score,       \* refinement: the same, one call earlier
    moved,            \* refinement: the latest call moved its activity
    prev_moved,       \* refinement: the call before the latest moved its activity
    teacher_usage,    \* create_activities: teacher_id -> activities given so far
    room_usage,       \* create_activities: room_id -> activities placed so far
    skipped,          \* create_activities: the occurrences left without a teacher
    suitable_classroom, \* create_activities: the id of the room min() selected
    slot_catalog,     \* the list get_available_slots() returned
    db,               \* route: the tables and settings the request reads
    db_entries,       \* route: the committed TimetableEntry rows
    response,         \* route: the HTTP status of the response (0: none yet)
    lookup,           \* genetic_algorithm.py: the master data load_master_data() read
    chrom,            \* genetic_algorithm.py: the chromosome given to a function
    newpop,           \* run_class_timetable: the next population being filled
    fitnesses,        \* run_class_timetable: the fitness of every chromosome
    gen,              \* run_class_timetable: generations finished
    best_chrom,       \* run_class_timetable: best, the best chromosome of the final population
    result,           \* genetic_algorithm.py: what the function returned
    tt_runs,          \* init_db: the committed TimetableRun rows
    tt_entries,       \* init_db: the committed TimetableEntry rows
    locks             \* init_db: the entry_id of the committed ManualLock rows

genVars == <<self, activities, cursor, schedule, teacher_schedule,
             room_schedule, section_schedule, phases, entries>>

evalVars == <<heap, population, fitness_scores, violations>>

gaVars == <<generation, best_fitness, best_individual, parents, child_pair,
            offspring, offspring_fitness, optimized_schedule>>

refVars == <<refined_schedule, attempt, ref_cursor, improved, best_score,
             prev_score, moved, prev_moved>>

createVars == <<teacher_usage, room_usage, skipped, suitable_classroom,
                slot_catalog>>

routeVars == <<db, db_entries, response>>

classVars == <<lookup, chrom, newpop, fitnesses, gen, best_chrom, result, tt_runs,
               tt_entries, locks>>

vars == <<pc, genVars, evalVars, gaVars, refVars, createVars, routeVars, classVars>>

----------------------------------------------------------------------------
(* Bounds of the model *)

MaxSections == 2
MaxTeachers == 2
MaxRooms == 2
MaxSubjects == 2
MaxCredits == 2
MaxDays == 1
MaxPriority == 2
MaxRaised == 1
MaxValActs == 3
MaxFitSections == 14
MaxFitDays == 2
MaxRandDays == 1
MaxRandPeriods == 1
MaxMutations == 1

(* self.population_size (30, 50 or 80 in the program), self.elite_size        *)
(* (max(5, population_size // 10)), self.generations (15, 20 or 25), the      *)
(* rounds of mutation random.randint(1, 5) draws for a member of the initial  *)
(* population, and the improvement attempts of the refinement (10)            *)
PopulationSize == 3
EliteSize == 1
Generations == 1
MaxInitRounds == 1
RefineAttempts == 2

(* Program constants *)

periods_per_day == 12
LunchPeriod == 5
TeacherLoadCap == 30
CapacityPenalty == 1000
UsagePenaltyFactor == 2
DefaultSectionCapacity == 30

----------------------------------------------------------------------------
(* Generic helpers *)

Range(f) == {f[x] : x \in DOMAIN f}

RECURSIVE SeqSum(_)
SeqSum(s) == IF s = <<>> THEN 0 ELSE Head(s) + SeqSum(Tail(s))

(* the subsets of S with at most k elements *)
RECURSIVE SubsetsUpTo(_, _)
SubsetsUpTo(S, k) ==
    IF k = 0 THEN {{}}
    ELSE LET P == SubsetsUpTo(S, k - 1) IN P \cup {T \cup {x} : T \in P, x \in S}

(* Python dict: insertion-ordered keys and a mapping *)
EmptyDict == [keys |-> <<>>, val |-> <<>>]
DictHas(d, k) == k \in Range(d.keys)
DictGet(d, k) == d.val[CHOOSE i \in DOMAIN d.keys : d.keys[i] = k]
DictSet(d, k, v) ==
    IF DictHas(d, k)
    THEN [d EXCEPT !.val[CHOOSE i \in DOMAIN d.keys : d.keys[i] = k] = v]
    ELSE [keys |-> Append(d.keys, k), val |-> Append(d.val, v)]
DictLen(d) == Len(d.keys)
DictKeySet(d) == Range(d.keys)

(* defaultdict(set) / defaultdict(int): a function with a default *)
DDGet(dd, k, default) == IF k \in DOMAIN dd THEN dd[k] ELSE default
DDPut(dd, k, v) == [x \in DOMAIN dd \cup {k} |-> IF x = k THEN v ELSE dd[x]]

----------------------------------------------------------------------------
(* TimeSlot and activity ids *)

TimeSlot(day, period, start_time) ==
    [day |-> day, period |-> period, start_time |-> start_time]

SlotEqAllFields(a, b) == a = b
SlotEq(a, b) == a.day = b.day /\ a.period = b.period

MakeActivityId(section, teacher, room, subject, class_num) ==
    <<section, teacher, room, subject, class_num>>

get_section_id(activity_id) == activity_id[1]
get_teacher_id(activity_id) == activity_id[2]
get_room_id(activity_id) == activity_id[3]

----------------------------------------------------------------------------
(* get_available_slots: every working day, periods 1..12 in order *)

StartHour(period) ==
    IF period <= 4 THEN 8 + period
    ELSE IF period = LunchPeriod THEN 13
    ELSE 13 + (period - 5)

get_available_slots(working_days) ==
    [i \in 1..(Len(working_days) * periods_per_day) |->
        LET d == ((i - 1) \div periods_per_day) + 1
            p == ((i - 1) % periods_per_day) + 1
        IN  TimeSlot(working_days[d], p, StartHour(p))]

----------------------------------------------------------------------------
(* create_activities *)

teacher_can_teach(app_mode, teacher, subject) ==
    IF app_mode = "school"
    THEN subject.id \in teacher.subjects
    ELSE subject.id \in teacher.courses

(* the subjects/courses relevant to a section, as indices into the catalog *)
RelevantSubjects(g, section) ==
    LET all == [i \in 1..Len(g.subjects_or_courses) |-> i]
        dept == SelectSeq(all, LAMBDA i :
                    section.department_id # 0
                    /\ g.subjects_or_courses[i].department_id = section.department_id)
    IN  IF g.app_mode = "school" THEN all
        ELSE IF dept # <<>> THEN dept ELSE all

SuitableTeacherUncapped(g, subject, t_usage) ==
    LET ok == {i \in 1..Len(g.teachers) :
                  teacher_can_teach(g.app_mode, g.teachers[i], subject)}
    IN  IF ok = {} THEN 0 ELSE CHOOSE i \in ok : \A j \in ok : i <= j

(* first teacher in list order that can teach and is under the load cap; 0 if none *)
SuitableTeacher(g, subject, t_usage) ==
    LET ok == {i \in 1..Len(g.teachers) :
                  /\ teacher_can_teach(g.app_mode, g.teachers[i], subject)
                  /\ DDGet(t_usage, g.teachers[i].id, 0) < TeacherLoadCap}
    IN  IF ok = {} THEN 0 ELSE CHOOSE i \in ok : \A j \in ok : i <= j

classroom_score(c, section, r_usage) ==
    LET capacity_ok == c.capacity >= section.capacity
        usage_penalty == DDGet(r_usage, c.id, 0) * UsagePenaltyFactor
        capacity_penalty == IF capacity_ok THEN 0 ELSE CapacityPenalty
    IN  usage_penalty + capacity_penalty

(* min(self.classrooms, key=classroom_score): the first room of minimal score *)
SuitableClassroom(g, section, r_usage) ==
    LET sc(i) == classroom_score(g.classrooms[i], section, r_usage)
        best == {i \in 1..Len(g.classrooms) :
                    \A j \in 1..Len(g.classrooms) : sc(i) <= sc(j)}
    IN  CHOOSE i \in best : \A j \in best : i <= j

(* the weekly occurrences in creation order: <<section index, subject index, class_num>> *)
RECURSIVE FlattenSeq(_)
FlattenSeq(ss) == IF ss = <<>> THEN <<>> ELSE Head(ss) \o FlattenSeq(Tail(ss))

OccurrencesOncePerSubject(g) ==
    FlattenSeq([si \in 1..Len(g.sections) |->
        LET rel == RelevantSubjects(g, g.sections[si])
        IN  [k \in 1..Len(rel) |-> <<si, rel[k], 0>>]])

Occurrences(g) ==
    FlattenSeq([si \in 1..Len(g.sections) |->
        LET rel == RelevantSubjects(g, g.sections[si])
        IN  FlattenSeq([k \in 1..Len(rel) |->
                [n \in 1..g.subjects_or_courses[rel[k]].credits |->
                    <<si, rel[k], n - 1>>]])])

(* The values random.randint(1, 5) draws for n occurrences: priorities in     *)
(* 1..MaxPriority, at most MaxRaised of them above 1.                         *)
PriorityDraws(n) ==
    UNION {{[i \in 1..n |-> IF i \in S THEN f[i] ELSE 1] : f \in [S -> 2..MaxPriority]} :
           S \in SubsetsUpTo(1..n, MaxRaised)}

(* The loop body of create_activities over the occurrences from index i on.     *)
(* st = [activities, teacher_usage, room_usage, skipped, raised]; prio[i] is    *)
(* the value random.randint draws for occurrence i.                             *)
RECURSIVE CreateFrom(_, _, _, _, _)
CreateFrom(g, occs, prio, i, st) ==
    IF i > Len(occs) \/ st.raised THEN st
    ELSE
        LET section == g.sections[occs[i][1]]
            subject == g.subjects_or_courses[occs[i][2]]
            class_num == occs[i][3]
            ti == SuitableTeacher(g, subject, st.teacher_usage)
        IN  IF ti = 0
            THEN CreateFrom(g, occs, prio, i + 1,
                            [st EXCEPT !.skipped = Append(@, occs[i])])
            ELSE IF Len(g.classrooms) = 0
            THEN [st EXCEPT !.raised = TRUE]   \* min() of an empty sequence
            ELSE
                LET teacher == g.teachers[ti]
                    room == g.classrooms[SuitableClassroom(g, section, st.room_usage)]
                    activity ==
                        [id |-> MakeActivityId(section.id, teacher.id, room.id,
                                               subject.id, class_num),
                         section_id |-> section.id,
                         teacher_id |-> teacher.id,
                         room_id |-> room.id,
                         subject_id |-> subject.id,
                         priority |-> prio[i]]
                IN  CreateFrom(g, occs, prio, i + 1,
                        [st EXCEPT
                            !.activities = Append(@, activity),
                            !.teacher_usage =
                                DDPut(@, teacher.id, DDGet(@, teacher.id, 0) + 1),
                            !.room_usage =
                                DDPut(@, room.id, DDGet(@, room.id, 0) + 1)])

create_activities(g, prio) ==
    LET st == CreateFrom(g, Occurrences(g), prio, 1,
                  [activities |-> <<>>, teacher_usage |-> <<>>,
                   room_usage |-> <<>>, skipped |-> <<>>, raised |-> FALSE])
    IN  \* the average printed at the end divides by len(self.sections)
        IF Len(g.sections) = 0 THEN [st EXCEPT !.raised = TRUE] ELSE st

----------------------------------------------------------------------------
(* greedy_assignment *)

(* section_acts.sort(key=priority, reverse=True): stable, descending *)
RECURSIVE SortByPriorityDesc(_, _)
SortByPriorityDesc(acts, p) ==
    IF p < 1 THEN <<>>
    ELSE SelectSeq(acts, LAMBDA a : a.priority = p) \o SortByPriorityDesc(acts, p - 1)

MaxPriorityOf(acts) ==
    IF acts = <<>> THEN 0
    ELSE CHOOSE p \in {acts[i].priority : i \in DOMAIN acts} :
            \A i \in DOMAIN acts : acts[i].priority <= p

(* the section ids in order of first appearance (the defaultdict's key order) *)
RECURSIVE FirstAppearance(_, _)
FirstAppearance(acts, seen) ==
    IF acts = <<>> THEN <<>>
    ELSE IF Head(acts).section_id \in seen THEN FirstAppearance(Tail(acts), seen)
    ELSE <<Head(acts).section_id>>
            \o FirstAppearance(Tail(acts), seen \cup {Head(acts).section_id})

(* the order in which greedy_assignment places the activities *)
SchedulingOrder(acts) ==
    LET secs == FirstAppearance(acts, {})
    IN  FlattenSeq([k \in 1..Len(secs) |->
            LET mine == SelectSeq(acts, LAMBDA a : a.section_id = secs[k])
            IN  SortByPriorityDesc(mine, MaxPriorityOf(mine))])

SlotFreeTeacherUnchecked(activity, time_slot, ts, rs, ss) ==
    LET key == <<time_slot.day, time_slot.period>>
        room_busy == key \in DDGet(rs, activity.room_id, {})
        section_busy == key \in DDGet(ss, activity.section_id, {})
    IN  ~(room_busy \/ section_busy)

SlotFree(activity, time_slot, ts, rs, ss) ==
    LET key == <<time_slot.day, time_slot.period>>
        teacher_busy == key \in DDGet(ts, activity.teacher_id, {})
        room_busy == key \in DDGet(rs, activity.room_id, {})
        section_busy == key \in DDGet(ss, activity.section_id, {})
    IN  ~(teacher_busy \/ room_busy \/ section_busy)

LastFreeSlot(activity, available_slots, ts, rs, ss) ==
    LET ok == {i \in DOMAIN available_slots :
                  /\ available_slots[i].period # LunchPeriod
                  /\ SlotFree(activity, available_slots[i], ts, rs, ss)}
    IN  IF ok = {} THEN 0 ELSE CHOOSE i \in ok : \A j \in ok : i >= j

(* index of the first slot the activity can take, skipping period 5; 0 if none *)
FirstFreeSlot(activity, available_slots, ts, rs, ss) ==
    LET ok == {i \in DOMAIN available_slots :
                  /\ available_slots[i].period # LunchPeriod
                  /\ SlotFree(activity, available_slots[i], ts, rs, ss)}
    IN  IF ok = {} THEN 0 ELSE CHOOSE i \in ok : \A j \in ok : i <= j

----------------------------------------------------------------------------
(* convert_to_timetable_entries *)

convert_swapping_ids(app_mode, sched) ==
    [i \in 1..DictLen(sched) |->
        [day |-> sched.val[i].day,
         period |-> sched.val[i].period,
         teacher_id |-> sched.keys[i][1],
         section_id |-> sched.keys[i][2],
         classroom_id |-> sched.keys[i][3],
         subject_id |-> IF app_mode = "school" THEN sched.keys[i][4] ELSE 0,
         course_id |-> IF app_mode = "school" THEN 0 ELSE sched.keys[i][4]]]

convert_to_timetable_entries(app_mode, sched) ==
    [i \in 1..DictLen(sched) |->
        LET activity_id == sched.keys[i]
            time_slot == sched.val[i]
        IN  [day |-> time_slot.day,
             period |-> time_slot.period,
             teacher_id |-> activity_id[2],
             section_id |-> activity_id[1],
             classroom_id |-> activity_id[3],
             subject_id |-> IF app_mode = "school" THEN activity_id[4] ELSE 0,
             course_id |-> IF app_mode = "school" THEN 0 ELSE activity_id[4]]]

----------------------------------------------------------------------------
(* ConstraintManager *)

HardPenalty == 1000
MorningWeight == 10
WorkloadWeight == 5
ContinuityWeight == 8
LabWeight == 15
TeacherPreferenceWeight == 3
MorningLastPeriod == 3

(* Scores are multiplied by ScoreScale = lcm{n^2 : n = 1..6}, which keeps the  *)
(* variance of a teacher's loads over up to six days an integer.               *)
ScoreScale == 60 * 60

(* get_subject_difficulty returns random.random(): a fresh draw in [0, 1) at   *)
(* every call, here in tenths.                                                 *)
Difficulties == {0, 9}

(* the keys of defaultdict(list) keyed by TimeSlot, in insertion order: one    *)
(* representative per class of slots equal under __eq__                        *)
RECURSIVE SlotKeys(_, _)
SlotKeys(vals, reps) ==
    IF vals = <<>> THEN reps
    ELSE IF \E i \in DOMAIN reps : SlotEq(reps[i], Head(vals))
         THEN SlotKeys(Tail(vals), reps)
         ELSE SlotKeys(Tail(vals), Append(reps, Head(vals)))

(* time_slot_activities[rep]: the activity ids at that slot, in dict order *)
ActivitiesAt(sched, rep) ==
    LET idx == SelectSeq([i \in 1..DictLen(sched) |-> i],
                         LAMBDA i : SlotEq(sched.val[i], rep))
    IN  [k \in 1..Len(idx) |-> sched.keys[idx[k]]]

HasDuplicates(s) == \E i, j \in DOMAIN s : i # j /\ s[i] = s[j]

ConstraintViolation(description, acts) ==
    [type |-> "hard", description |-> description, penalty |-> HardPenalty,
     activity_ids |-> acts]

validate_hard_constraints(sched) ==
    LET reps == SlotKeys(sched.val, <<>>)
        per(rep) ==
            LET acts == ActivitiesAt(sched, rep)
                teachers_ == [i \in DOMAIN acts |-> get_teacher_id(acts[i])]
                rooms_ == [i \in DOMAIN acts |-> get_room_id(acts[i])]
                sections_ == [i \in DOMAIN acts |-> get_section_id(acts[i])]
            IN  IF Len(acts) > 1
                THEN (IF HasDuplicates(teachers_)
                      THEN <<ConstraintViolation("Teacher double-booking", acts)>>
                      ELSE <<>>)
                     \o (IF HasDuplicates(rooms_)
                         THEN <<ConstraintViolation("Room double-booking", acts)>>
                         ELSE <<>>)
                     \o (IF HasDuplicates(sections_)
                         THEN <<ConstraintViolation("Section double-booking", acts)>>
                         ELSE <<>>)
                ELSE <<>>
    IN  FlattenSeq([k \in 1..Len(reps) |-> per(reps[k])])

(* the sums random draws can give for m morning activities, times the weight *)
RECURSIVE DrawSums(_)
DrawSums(m) ==
    IF m = 0 THEN {0}
    ELSE {x + d : x \in DrawSums(m - 1), d \in Difficulties}

(* morning_preference_score: difficulty * 10.0 for every activity in periods   *)
(* 1..3, difficulty in tenths: the set of values a call can return             *)
morning_preference_score(sched) ==
    LET m == Cardinality({i \in 1..DictLen(sched) :
                             sched.val[i].period <= MorningLastPeriod})
    IN  {ScoreScale * ((x * MorningWeight) \div 10) : x \in DrawSums(m)}

RECURSIVE SetSum(_, _)
SetSum(S, f) ==
    IF S = {} THEN 0
    ELSE LET x == CHOOSE y \in S : TRUE IN f[x] + SetSum(S \ {x}, f)

(* workload_balance_score: minus 5 times the variance of each teacher's loads  *)
(* over the days he teaches, for teachers with more than one such day          *)
workload_balance_score(sched) ==
    LET idx == 1..DictLen(sched)
        teacher_ids == {get_teacher_id(sched.keys[i]) : i \in idx}
        days(t) == {sched.val[i].day : i \in {j \in idx : get_teacher_id(sched.keys[j]) = t}}
        load(t, d) == Cardinality({i \in idx : /\ get_teacher_id(sched.keys[i]) = t
                                              /\ sched.val[i].day = d})
        scaled_variance(t) ==
            LET n == Cardinality(days(t))
                sum == SetSum(days(t), [d \in days(t) |-> load(t, d)])
                sumsq == SetSum(days(t), [d \in days(t) |-> load(t, d) * load(t, d)])
            IN  IF n > 1
                THEN ((n * sumsq - sum * sum) * ScoreScale) \div (n * n)
                ELSE 0
        total_variance == SetSum(teacher_ids, [t \in teacher_ids |-> scaled_variance(t)])
    IN  -(total_variance * WorkloadWeight)

(* schedule_continuity_score: per section, the periods of all its activities   *)
(* (of every day together) sorted; every step of more than 1 between           *)
(* neighbours counts its missing periods                                       *)
schedule_continuity_score(sched) ==
    LET idx == 1..DictLen(sched)
        section_ids == {get_section_id(sched.keys[i]) : i \in idx}
        periods(s) == {sched.val[i].period :
                          i \in {j \in idx : get_section_id(sched.keys[j]) = s}}
        gaps(s) ==
            LET P == periods(s)
                next(p) == CHOOSE q \in P : q > p /\ \A r \in P : r > p => q <= r
                inner == {p \in P : \E q \in P : q > p}
            IN  SetSum(inner, [p \in inner |->
                    IF next(p) - p > 1 THEN next(p) - p - 1 ELSE 0])
    IN  -(SetSum(section_ids, [s \in section_ids |-> gaps(s)])
            * ContinuityWeight * ScoreScale)

is_lab_activity(activity_id) == FALSE

lab_optimization_score(sched) ==
    LET lab == {i \in 1..DictLen(sched) : is_lab_activity(sched.keys[i])}
        hit == {i \in lab : \E j \in 1..DictLen(sched) :
                    SlotEq(sched.val[j],
                           TimeSlot(sched.val[i].day, sched.val[i].period + 1, 0))}
    IN  Cardinality(hit) * LabWeight * ScoreScale

teacher_prefers_time(teacher_id, time_slot) == TRUE

teacher_preference_score(sched) ==
    Cardinality({i \in 1..DictLen(sched) :
        teacher_prefers_time(get_teacher_id(sched.keys[i]), sched.val[i])})
      * TeacherPreferenceWeight * ScoreScale

(* evaluate_soft_constraints: the set of values a call can return *)
evaluate_soft_constraints(sched) ==
    {m + workload_balance_score(sched) + schedule_continuity_score(sched)
       + lab_optimization_score(sched) + teacher_preference_score(sched) :
     m \in morning_preference_score(sched)}

(* the fitness evaluate_population_fitness can record for one individual *)
IndividualFitness(sched) ==
    LET vs == validate_hard_constraints(sched)
        hard_penalty == SeqSum([i \in DOMAIN vs |-> vs[i].penalty])
    IN  IF hard_penalty > 0
        THEN {-(hard_penalty * ScoreScale)}
        ELSE evaluate_soft_constraints(sched)

(* the sequences whose i-th element is drawn from sets[i] *)
RECURSIVE SeqProduct(_)
SeqProduct(sets) ==
    IF sets = <<>> THEN {<<>>}
    ELSE LET rest == SeqProduct(Tail(sets))
         IN  {<<x>> \o r : x \in Head(sets), r \in rest}

(* evaluate_population_fitness: the lists of scores a call can return *)
evaluate_population_fitness(h, pop) ==
    SeqProduct([i \in 1..Len(pop) |-> IndividualFitness(h[pop[i]])])

----------------------------------------------------------------------------
(* GeneticOperators *)

(* None, where a TimeSlot is expected *)
NoSlot == TimeSlot(0, 0, 0)

SharesResource(id1, id2) ==
    \/ get_teacher_id(id1) = get_teacher_id(id2)
    \/ get_room_id(id1) = get_room_id(id2)
    \/ get_section_id(id1) = get_section_id(id2)

can_assign_always(activity_id, time_slot, sched) == TRUE

can_assign(activity_id, time_slot, sched) ==
    \A i \in 1..DictLen(sched) :
        SlotEq(sched.val[i], time_slot) => ~SharesResource(activity_id, sched.keys[i])

(* the slots random.choice(days), random.choice(periods) can draw: the first   *)
(* MaxRandDays of the five days and the first MaxRandPeriods of the periods    *)
(* 1..8; such a slot has no display time                                       *)
RandomGrid ==
    {TimeSlot(d, p, 0) : d \in 1..MaxRandDays, p \in 1..MaxRandPeriods}

(* get_random_valid_slot: any slot of the grid that can be assigned, or None   *)
(* when every one of the 20 draws hit a slot that cannot                       *)
get_random_valid_slot(activity_id, sched) ==
    LET valid == {s \in RandomGrid : can_assign(activity_id, s, sched)}
    IN  valid \cup (IF valid # RandomGrid THEN {NoSlot} ELSE {})

(* find_best_available_slot: the reference slot if it can be assigned, else    *)
(* the first of ten random tries that gives a slot, else None                  *)
find_best_available_slot(activity_id, current_schedule, reference_schedule) ==
    IF /\ DictHas(reference_schedule, activity_id)
       /\ can_assign(activity_id, DictGet(reference_schedule, activity_id),
                     current_schedule)
    THEN {DictGet(reference_schedule, activity_id)}
    ELSE get_random_valid_slot(activity_id, current_schedule)

(* crossover, first loop: the first `point` activities of parent1, each kept   *)
(* only if it can be assigned in the child built so far                        *)
RECURSIVE CrossoverPrefix(_, _, _, _)
CrossoverPrefix(parent1, point, i, child) ==
    IF i > point THEN child
    ELSE CrossoverPrefix(parent1, point, i + 1,
            IF can_assign(parent1.keys[i], parent1.val[i], child)
            THEN DictSet(child, parent1.keys[i], parent1.val[i])
            ELSE child)

(* crossover, second loop, over a set of children built so far *)
RECURSIVE CrossoverFill(_, _, _, _)
CrossoverFill(parent1, parent2, i, children) ==
    IF i > DictLen(parent1) THEN children
    ELSE CrossoverFill(parent1, parent2, i + 1,
            UNION {{IF best_slot = NoSlot THEN child
                    ELSE DictSet(child, parent1.keys[i], best_slot) :
                      best_slot \in find_best_available_slot(parent1.keys[i],
                                                             child, parent2)} :
                   child \in children})

(* the children crossover can return for one crossover point *)
crossover_at(parent1, parent2, point) ==
    CrossoverFill(parent1, parent2, point + 1,
                  {CrossoverPrefix(parent1, point, 1, EmptyDict)})

(* crossover: random.randint(0, len(activities)) draws the point *)
crossover(parent1, parent2) ==
    UNION {crossover_at(parent1, parent2, point) : point \in 0..DictLen(parent1)}

DictSwap(d, k1, k2) ==
    DictSet(DictSet(d, k1, DictGet(d, k2)), k2, DictGet(d, k1))

can_exchange(activity1_id, activity2_id, sched) ==
    LET slot1 == DictGet(sched, activity1_id)
        slot2 == DictGet(sched, activity2_id)
        temp_schedule == DictSet(DictSet(sched, activity1_id, slot2),
                                 activity2_id, slot1)
    IN  /\ can_assign(activity1_id, slot2, temp_schedule)
        /\ can_assign(activity2_id, slot1, temp_schedule)

find_compatible_activities(activity_id, sched) ==
    {other_id \in DictKeySet(sched) :
        other_id # activity_id /\ can_exchange(activity_id, other_id, sched)}

(* what one drawn mutation of activity_id can make of `mutated` *)
MutateOne(individual, activity_id, mutated) ==
    \* 'swap': with any activity of the individual, unchecked
    {IF other = activity_id THEN mutated ELSE DictSwap(mutated, activity_id, other) :
        other \in DictKeySet(individual)}
    \* 'move': to a random valid slot, if one is found
    \cup {IF new_slot = NoSlot THEN mutated ELSE DictSet(mutated, activity_id, new_slot) :
            new_slot \in get_random_valid_slot(activity_id, mutated)}
    \* 'exchange': with a compatible activity, if there is one
    \cup {mutated}
    \cup {DictSwap(mutated, activity_id, target) :
            target \in find_compatible_activities(activity_id, mutated)}

(* mutate from the i-th activity on; states = pairs <<mutated, mutations drawn>> *)
RECURSIVE MutateFrom(_, _, _)
MutateFrom(individual, i, states) ==
    IF i > DictLen(individual) THEN {st[1] : st \in states}
    ELSE MutateFrom(individual, i + 1,
            states \cup
            UNION {{<<m, st[2] + 1>> : m \in MutateOne(individual, individual.keys[i], st[1])} :
                   st \in {x \in states : x[2] < MaxMutations}})

(* mutate: the copies it can return; every activity is mutated with            *)
(* probability mutation_rate, here at most MaxMutations of them in one call    *)
mutate(individual) == MutateFrom(individual, 1, {<<individual, 0>>})

----------------------------------------------------------------------------
(* Schedule objects.  A reference is an index into heap; dict.copy() and the   *)
(* literal {} make a new object, an assignment through a reference changes     *)
(* the object it points to.                                                    *)

dict_alias(h, ref) == [heap |-> h, ref |-> ref]
dict_copy(h, ref) == [heap |-> Append(h, h[ref]), ref |-> Len(h) + 1]

(* crossover on objects: child = {} is a new object *)
heap_crossover(h, ref1, ref2) ==
    {[heap |-> Append(h, child), ref |-> Len(h) + 1] :
        child \in crossover(h[ref1], h[ref2])}

(* mutate on objects: mutated = individual.copy(), then changed in place *)
heap_mutate(h, ref) ==
    LET c == dict_copy(h, ref)
    IN  {[heap |-> [c.heap EXCEPT ![c.ref] = m], ref |-> c.ref] :
            m \in mutate(h[ref])}

----------------------------------------------------------------------------
(* TimetableGenerator: the genetic algorithm *)

TournamentSize == 3

(* best_fitness >= 0.95, in scaled score *)
EarlyStopFitness == (95 * ScoreScale) \div 100

(* rounds of mutate from the i-th on, over a set of [heap, ref] *)
RECURSIVE MutateRounds(_, _)
MutateRounds(states, rounds) ==
    IF rounds = 0 THEN states
    ELSE MutateRounds(UNION {heap_mutate(st.heap, st.ref) : st \in states},
                      rounds - 1)

(* create_initial_population from member i on; st = [heap, population] *)
RECURSIVE InitialPopulationFrom(_, _, _)
InitialPopulationFrom(initial_ref, i, states) ==
    IF i > PopulationSize THEN states
    ELSE InitialPopulationFrom(initial_ref, i + 1,
            UNION {{[heap |-> m.heap, population |-> Append(st.population, m.ref)] :
                      m \in UNION {MutateRounds({dict_copy(st.heap, initial_ref)}, k) :
                                      k \in 1..MaxInitRounds}} :
                   st \in states})

create_initial_population(h, initial_ref) ==
    LET first == dict_copy(h, initial_ref)
    IN  InitialPopulationFrom(initial_ref, 2,
            {[heap |-> first.heap, population |-> <<first.ref>>]})

(* the indices a tournament can name the winner: of maximal fitness in some    *)
(* sample of TournamentSize distinct indices                                   *)
tournament_winners(fitness) ==
    {i \in DOMAIN fitness :
        \E T \in SUBSET (DOMAIN fitness) :
            /\ Cardinality(T) = TournamentSize
            /\ i \in T
            /\ \A j \in T : fitness[j] <= fitness[i]}

tournament_selection(pop, fitness) ==
    {[k \in 1..Len(pop) |-> pop[w[k]]] :
        w \in [1..Len(pop) -> tournament_winners(fitness)]}

unsorted(scores) == [i \in DOMAIN scores |-> i]

(* sorted(zip(..), key=fitness, reverse=True): the indices by descending       *)
(* score, equal scores in their original order                                 *)
RECURSIVE sorted_by_fitness(_)
sorted_by_fitness(scores) ==
    IF scores = <<>> THEN <<>>
    ELSE LET n == Len(scores)
             rest == sorted_by_fitness(SubSeq(scores, 1, n - 1))
             before == SelectSeq(rest, LAMBDA i : scores[i] >= scores[n])
             after == SelectSeq(rest, LAMBDA i : scores[i] < scores[n])
         IN  before \o <<n>> \o after

Min2(a, b) == IF a <= b THEN a ELSE b

elitist_replacement(pop, offs, fitness, offs_fitness) ==
    LET sorted_population == sorted_by_fitness(fitness)
        sorted_offspring == sorted_by_fitness(offs_fitness)
        remaining_slots == PopulationSize - EliteSize
    IN  [k \in 1..Min2(EliteSize, Len(pop)) |-> pop[sorted_population[k]]]
        \o [k \in 1..Min2(remaining_slots, Len(offs)) |-> offs[sorted_offspring[k]]]

----------------------------------------------------------------------------
(* TimetableGenerator: constraint_satisfaction_refinement *)


(* the loop of find_best_slot_for_activity from slot i on; states holds the    *)
(* pairs <<best_score, best_slot>> the draws so far can have left              *)
RECURSIVE BestSlotFrom(_, _, _, _, _)
BestSlotFrom(activity_id, sched, slots, i, states) ==
    IF i > Len(slots) THEN states
    ELSE LET time_slot == slots[i]
             current_slot == DictGet(sched, activity_id)
         IN  IF /\ ~SlotEq(time_slot, current_slot)
                /\ can_assign(activity_id, time_slot, sched)
             THEN LET temp_schedule == DictSet(sched, activity_id, time_slot)
                      scores == evaluate_soft_constraints(temp_schedule)
                  IN  BestSlotFrom(activity_id, sched, slots, i + 1,
                         {IF score > st[1] THEN <<score, time_slot>> ELSE st :
                             st \in states, score \in scores})
             ELSE BestSlotFrom(activity_id, sched, slots, i + 1, states)

(* find_best_slot_for_activity: the slots it can return when the score it      *)
(* computes first, for the schedule as it is, is first_score                   *)
find_best_slot_for_activity(activity_id, sched, slots, first_score) ==
    {st[2] : st \in BestSlotFrom(activity_id, sched, slots, 1,
                                 {<<first_score, DictGet(sched, activity_id)>>})}

----------------------------------------------------------------------------
(* The inputs a TimetableGenerator is constructed with *)

SectionInputs ==
    {[i \in 1..n |-> [id |-> i, capacity |-> DefaultSectionCapacity,
                      department_id |-> i]] : n \in 1..MaxSections}

SubjectInputs ==
    UNION {{[i \in 1..n |-> [id |-> i, credits |-> cr[i], department_id |-> dp[i]]] :
              cr \in [1..n -> 1..MaxCredits], dp \in [1..n -> {1}]} :
           n \in 1..MaxSubjects}

TeacherInputs(app_mode, nsubj) ==
    UNION {{[i \in 1..n |->
                [id |-> i,
                 subjects |-> IF app_mode = "school" THEN t[i] ELSE {},
                 courses |-> IF app_mode = "school" THEN {} ELSE t[i]]] :
              t \in [1..n -> SUBSET (1..nsubj)]} :
           n \in 0..MaxTeachers}

RoomCapacities == {20, 40}

ClassroomInputs ==
    UNION {{[i \in 1..n |-> [id |-> i, capacity |-> c[i]]] :
              c \in [1..n -> RoomCapacities]} :
           n \in 0..MaxRooms}

WorkingDayInputs == {[i \in 1..n |-> i] : n \in 1..MaxDays}

GeneratorInputs(app_mode) ==
    UNION {{[sections |-> se, teachers |-> te, classrooms |-> cl,
             subjects_or_courses |-> su, app_mode |-> app_mode, working_days |-> wd] :
              se \in SectionInputs, te \in TeacherInputs(app_mode, Len(su)),
              cl \in ClassroomInputs, wd \in WorkingDayInputs} :
           su \in SubjectInputs}

----------------------------------------------------------------------------
(* generate(): greedy_assignment, then convert_to_timetable_entries *)

GenIdle ==
    /\ activities = <<>>
    /\ cursor = 0
    /\ schedule = EmptyDict
    /\ teacher_schedule = <<>>
    /\ room_schedule = <<>>
    /\ section_schedule = <<>>
    /\ phases = <<>>
    /\ entries = <<>>

EvalIdle ==
    /\ heap = <<>>
    /\ population = <<>>
    /\ fitness_scores = <<>>
    /\ violations = <<>>

GAIdle ==
    /\ generation = 0
    /\ best_fitness = 0
    /\ best_individual = 0
    /\ parents = <<>>
    /\ child_pair = <<>>
    /\ offspring = <<>>
    /\ offspring_fitness = <<>>
    /\ optimized_schedule = 0

RefIdle ==
    /\ refined_schedule = EmptyDict
    /\ attempt = 0
    /\ ref_cursor = 0
    /\ improved = FALSE
    /\ best_score = 0
    /\ prev_score = 0
    /\ moved = FALSE
    /\ prev_moved = FALSE

CreateIdle ==
    /\ teacher_usage = <<>>
    /\ room_usage = <<>>
    /\ skipped = <<>>
    /\ suitable_classroom = 0
    /\ slot_catalog = <<>>

RouteIdle ==
    /\ db = <<>>
    /\ db_entries = <<>>
    /\ response = 0

ClassIdle ==
    /\ lookup = <<>>
    /\ chrom = <<>>
    /\ newpop = <<>>
    /\ fitnesses = <<>>
    /\ gen = 0
    /\ best_chrom = <<>>
    /\ result = <<>>
    /\ tt_runs = <<>>
    /\ tt_entries = <<>>
    /\ locks = {}

(* two sections, two teachers who both teach the one subject of two weekly    *)
(* classes, two rooms of sufficient capacity, five working days                *)
TwoSectionsInput(app_mode) ==
    [sections |-> [i \in 1..2 |-> [id |-> i, capacity |-> DefaultSectionCapacity,
                                   department_id |-> i]],
     teachers |-> [i \in 1..2 |->
                      [id |-> i,
                       subjects |-> IF app_mode = "school" THEN {1} ELSE {},
                       courses |-> IF app_mode = "school" THEN {} ELSE {1}]],
     classrooms |-> [i \in 1..2 |-> [id |-> i, capacity |-> 40]],
     subjects_or_courses |-> <<[id |-> 1, credits |-> 2, department_id |-> 1]>>,
     app_mode |-> app_mode,
     working_days |-> <<1, 2, 3, 4, 5>>]

(* one section with as many weekly classes of one subject as a day has periods, *)
(* one teacher, one room, the given working days                                *)
FullDayInput(app_mode, working_days) ==
    [sections |-> <<[id |-> 1, capacity |-> DefaultSectionCapacity,
                     department_id |-> 1]>>,
     teachers |-> <<[id |-> 1,
                     subjects |-> IF app_mode = "school" THEN {1} ELSE {},
                     courses |-> IF app_mode = "school" THEN {} ELSE {1}]>>,
     classrooms |-> <<[id |-> 1, capacity |-> 40]>>,
     subjects_or_courses |-> <<[id |-> 1, credits |-> periods_per_day,
                                department_id |-> 1]>>,
     app_mode |-> app_mode,
     working_days |-> working_days]

InitGenerate ==
    /\ pc = "generate"
    /\ \E app_mode \in {"school", "college"} :
          self \in GeneratorInputs(app_mode)
                      \cup {TwoSectionsInput(app_mode),
                            FullDayInput(app_mode, <<1>>),
                            FullDayInput(app_mode, <<2, 1>>)}
    /\ GenIdle
    /\ EvalIdle
    /\ GAIdle
    /\ RefIdle
    /\ CreateIdle
    /\ RouteIdle
    /\ ClassIdle

(* greedy_assignment up to its loop: create_activities, the slot catalog,  *)
(* the grouping by section and the sort by priority                        *)
GreedyStart ==
    /\ pc = "generate"
    /\ \E prio \in PriorityDraws(Len(Occurrences(self))) :
         LET st == create_activities(self, prio)
         IN  /\ phases' = Append(phases, "Construct")
             /\ IF st.raised
                THEN /\ pc' = "raised"
                     /\ UNCHANGED <<activities, cursor>>
                ELSE IF st.activities = <<>>
                THEN /\ pc' = "greedy_done"      \* return {}
                     /\ UNCHANGED <<activities, cursor>>
                ELSE /\ pc' = "greedy"
                     /\ activities' = SchedulingOrder(st.activities)
                     /\ cursor' = 1
    /\ UNCHANGED <<self, schedule, teacher_schedule, room_schedule,
                   section_schedule, entries, evalVars, gaVars, refVars, createVars, routeVars, classVars>>

(* one iteration of "for activity in section_acts" *)
GreedyStep ==
    /\ pc = "greedy"
    /\ cursor <= Len(activities)
    /\ LET activity == activities[cursor]
           available_slots == get_available_slots(self.working_days)
           i == FirstFreeSlot(activity, available_slots, teacher_schedule,
                              room_schedule, section_schedule)
       IN  IF i = 0
           THEN UNCHANGED <<schedule, teacher_schedule, room_schedule,
                            section_schedule>>
           ELSE LET time_slot == available_slots[i]
                    key == <<time_slot.day, time_slot.period>>
                IN  /\ schedule' = DictSet(schedule, activity.id, time_slot)
                    /\ teacher_schedule' = DDPut(teacher_schedule, activity.teacher_id,
                          DDGet(teacher_schedule, activity.teacher_id, {}) \cup {key})
                    /\ room_schedule' = DDPut(room_schedule, activity.room_id,
                          DDGet(room_schedule, activity.room_id, {}) \cup {key})
                    /\ section_schedule' = DDPut(section_schedule, activity.section_id,
                          DDGet(section_schedule, activity.section_id, {}) \cup {key})
    /\ cursor' = cursor + 1
    /\ UNCHANGED <<pc, self, activities, phases, entries, evalVars, gaVars, refVars, createVars, routeVars, classVars>>

GreedyReturn ==
    /\ pc = "greedy"
    /\ cursor > Len(activities)
    /\ pc' = "greedy_done"
    /\ UNCHANGED <<genVars, evalVars, gaVars, refVars, createVars, routeVars, classVars>>

(* generate() after greedy_assignment returned *)
GenerateFinish ==
    /\ pc = "greedy_done"
    /\ IF DictLen(schedule) = 0
       THEN /\ entries' = <<>>
            /\ phases' = phases
       ELSE /\ entries' = convert_to_timetable_entries(self.app_mode, schedule)
            /\ phases' = Append(phases, "Export")
    /\ pc' = "returned"
    /\ UNCHANGED <<self, activities, cursor, schedule, teacher_schedule,
                   room_schedule, section_schedule, evalVars, gaVars, refVars, createVars, routeVars, classVars>>

NextGenerate == GreedyStart \/ GreedyStep \/ GreedyReturn \/ GenerateFinish

SpecGenerate == InitGenerate /\ [][NextGenerate]_vars

----------------------------------------------------------------------------
(* validate_hard_constraints applied to a schedule *)

(* the slots of the bounded schedules: two periods of day 1 and one of day 2;  *)
(* a slot made by get_random_valid_slot carries no display time (0)            *)
ValSlots ==
    {TimeSlot(1, 1, StartHour(1)), TimeSlot(1, 1, 0),
     TimeSlot(1, 2, StartHour(2)), TimeSlot(2, 1, StartHour(1))}

ValIds == {MakeActivityId(s, t, r, 1, 0) : s \in 1..2, t \in 1..2, r \in 1..2}

ValSchedules(n) ==
    {[keys |-> k, val |-> v] : v \in [1..n -> ValSlots],
        k \in {q \in [1..n -> ValIds] : \A i, j \in 1..n : i # j => q[i] # q[j]}}

InitValidate ==
    /\ pc = "validate"
    /\ \E n \in 0..MaxValActs : heap \in {<<sch>> : sch \in ValSchedules(n)}
    /\ population = <<1>>
    /\ fitness_scores = <<>>
    /\ violations = <<>>
    /\ self = <<>>
    /\ GenIdle
    /\ GAIdle
    /\ RefIdle
    /\ CreateIdle
    /\ RouteIdle
    /\ ClassIdle

ValidateHard ==
    /\ pc = "validate"
    /\ violations' = validate_hard_constraints(heap[population[1]])
    /\ pc' = "validated"
    /\ UNCHANGED <<heap, population, fitness_scores, genVars, createVars, routeVars, classVars, gaVars, refVars>>

NextValidate == ValidateHard

SpecValidate == InitValidate /\ [][NextValidate]_vars

----------------------------------------------------------------------------
(* evaluate_population_fitness applied to a feasible and an infeasible         *)
(* schedule over the same activities.  Section s of n has two activities:      *)
(* a_s in period p1 of day 1 and b_s in period p2 of day d2; either both are   *)
(* occurrences of one course with one teacher (in two rooms), or they are two  *)
(* courses with a teacher and a room each.  In the infeasible schedule b_1     *)
(* sits in a_1's slot.                                                         *)

FitFirstPeriods == {1, 4}
FitSecondPeriods == {2, 8, 12}

FitA(s) == MakeActivityId(s, 2 * s - 1, 2 * s - 1, 2 * s - 1, 0)
FitB(s, shareT) ==
    IF shareT THEN MakeActivityId(s, 2 * s - 1, 2 * s, 2 * s - 1, 1)
    ELSE MakeActivityId(s, 2 * s, 2 * s, 2 * s, 0)

FitSchedule(n, p1, p2, d2, shareT, clash) ==
    [keys |-> [i \in 1..(2 * n) |->
                 IF i % 2 = 1 THEN FitA((i + 1) \div 2) ELSE FitB(i \div 2, shareT)],
     val |-> [i \in 1..(2 * n) |->
                 IF i % 2 = 1 \/ (clash /\ i = 2)
                 THEN TimeSlot(1, p1, StartHour(p1))
                 ELSE TimeSlot(d2, p2, StartHour(p2))]]

InitFitness ==
    /\ pc = "evaluate"
    /\ \E n \in 1..MaxFitSections, p1 \in FitFirstPeriods, p2 \in FitSecondPeriods,
          d2 \in 1..MaxFitDays, shareT \in BOOLEAN :
         /\ <<d2, p2>> # <<1, p1>>
         /\ heap = <<FitSchedule(n, p1, p2, d2, shareT, FALSE),
                     FitSchedule(n, p1, p2, d2, shareT, TRUE)>>
    /\ population = <<1, 2>>
    /\ fitness_scores = <<>>
    /\ violations = <<>>
    /\ self = <<>>
    /\ GenIdle
    /\ GAIdle
    /\ RefIdle
    /\ CreateIdle
    /\ RouteIdle
    /\ ClassIdle

EvaluateFitness ==
    /\ pc = "evaluate"
    /\ fitness_scores' \in evaluate_population_fitness(heap, population)
    /\ pc' = "evaluated"
    /\ UNCHANGED <<heap, population, violations, genVars, createVars, routeVars, classVars, gaVars, refVars>>

NextFitness == EvaluateFitness

SpecFitness == InitFitness /\ [][NextFitness]_vars

----------------------------------------------------------------------------
(* crossover applied to two parents over the same activity ids *)

CrossIds == {MakeActivityId(sec, t, sec, 1, 0) : sec \in 1..MaxSections, t \in 1..MaxTeachers}

CrossSlots ==
    {TimeSlot(1, 1, StartHour(1)), TimeSlot(1, 2, 0), TimeSlot(2, 1, StartHour(1))}

InitCrossover ==
    /\ pc = "crossover"
    /\ \E n \in 1..MaxValActs :
         \E k \in {q \in [1..n -> CrossIds] : \A i, j \in 1..n : i # j => q[i] # q[j]} :
            \E v1 \in [1..n -> CrossSlots], v2 \in [1..n -> CrossSlots] :
               heap = <<[keys |-> k, val |-> v1], [keys |-> k, val |-> v2]>>
    /\ population = <<>>
    /\ fitness_scores = <<>>
    /\ violations = <<>>
    /\ self = <<>>
    /\ GenIdle
    /\ generation = 0
    /\ best_fitness = 0
    /\ best_individual = 0
    /\ parents = <<1, 2>>
    /\ child_pair = <<>>
    /\ offspring = <<>>
    /\ offspring_fitness = <<>>
    /\ optimized_schedule = 0
    /\ RefIdle
    /\ CreateIdle
    /\ RouteIdle
    /\ ClassIdle

(* child1 = self.genetic_operators.crossover(parent1, parent2) *)
Crossover ==
    /\ pc = "crossover"
    /\ \E r \in heap_crossover(heap, parents[1], parents[2]) :
         /\ heap' = r.heap
         /\ child_pair' = <<r.ref>>
    /\ pc' = "crossed"
    /\ UNCHANGED <<population, fitness_scores, violations, generation, best_fitness,
                   best_individual, parents, offspring, offspring_fitness, optimized_schedule,
                   genVars, createVars, routeVars, classVars, refVars>>

NextCrossover == Crossover

SpecCrossover == InitCrossover /\ [][NextCrossover]_vars

----------------------------------------------------------------------------
(* genetic_algorithm_optimization(initial_schedule); heap[1] is the argument *)

GAa == MakeActivityId(1, 1, 1, 1, 0)
GAc == MakeActivityId(1, 2, 2, 2, 0)

(* a schedule of one section: lessons of two courses, two free periods        *)
(* between; and the schedule without activities                               *)
GAInitials ==
    {[keys |-> <<GAa, x>>,
      val |-> <<TimeSlot(1, 1, StartHour(1)), TimeSlot(1, 4, StartHour(4))>>] :
        x \in {GAc}}
    \cup {EmptyDict}

InitGA ==
    /\ pc = "ga_start"
    /\ heap \in {<<sch>> : sch \in GAInitials}
    /\ population = <<>>
    /\ fitness_scores = <<>>
    /\ violations = <<>>
    /\ self = [generations |-> Generations]
    /\ GenIdle
    /\ GAIdle
    /\ RefIdle
    /\ CreateIdle
    /\ RouteIdle
    /\ ClassIdle

(* population = self.create_initial_population(initial_schedule) *)
GAInit ==
    /\ pc = "ga_start"
    /\ \E st \in create_initial_population(heap, 1) :
         /\ heap' = st.heap
         /\ population' = st.population
    /\ pc' = IF 0 < self.generations THEN "ga_loop" ELSE "ga_done"
    /\ UNCHANGED <<fitness_scores, violations, gaVars, genVars, createVars, routeVars, classVars, refVars>>

(* the head of the loop body without the early termination *)
GAEvaluateNoEarlyStop ==
    /\ pc = "ga_loop"
    /\ \E fs \in evaluate_population_fitness(heap, population) :
         LET current_best == CHOOSE x \in Range(fs) : \A y \in Range(fs) : y <= x
             index == CHOOSE i \in DOMAIN fs :
                         fs[i] = current_best /\ \A j \in DOMAIN fs :
                                                    fs[j] = current_best => i <= j
             better == best_individual = 0 \/ current_best > best_fitness
         IN  /\ fitness_scores' = fs
             /\ best_fitness' = IF better THEN current_best ELSE best_fitness
             /\ best_individual' = IF better THEN population[index] ELSE best_individual
             /\ pc' = "ga_select"
    /\ UNCHANGED <<heap, population, violations, generation, parents, child_pair,
                   offspring, offspring_fitness, optimized_schedule, genVars,
                   createVars, routeVars, classVars, refVars>>

(* the head of the loop body: evaluation, best tracking, early termination *)
GAEvaluate ==
    /\ pc = "ga_loop"
    /\ \E fs \in evaluate_population_fitness(heap, population) :
         LET current_best == CHOOSE x \in Range(fs) : \A y \in Range(fs) : y <= x
             index == CHOOSE i \in DOMAIN fs :
                         fs[i] = current_best /\ \A j \in DOMAIN fs :
                                                    fs[j] = current_best => i <= j
             better == best_individual = 0 \/ current_best > best_fitness
             new_best == IF better THEN current_best ELSE best_fitness
         IN  /\ fitness_scores' = fs
             /\ best_fitness' = new_best
             /\ best_individual' = IF better THEN population[index] ELSE best_individual
             /\ pc' = IF new_best >= EarlyStopFitness THEN "ga_done" ELSE "ga_select"
    /\ UNCHANGED <<heap, population, violations, generation, parents, child_pair,
                   offspring, offspring_fitness, optimized_schedule, genVars, createVars, routeVars, classVars, refVars>>

(* parents = self.tournament_selection(population, fitness_scores) *)
GASelect ==
    /\ pc = "ga_select"
    /\ parents' \in tournament_selection(population, fitness_scores)
    /\ offspring' = <<>>
    /\ child_pair' = <<>>
    /\ pc' = "ga_cross"
    /\ UNCHANGED <<evalVars, generation, best_fitness, best_individual,
                   offspring_fitness, optimized_schedule, genVars, createVars, routeVars, classVars, refVars>>

(* create_offspring, one pair: crossover, or copies of the parents *)
GACrossover ==
    /\ pc = "ga_cross"
    /\ LET i == Len(offspring) + 1
           parent1 == parents[i]
           parent2 == IF i + 1 <= Len(parents) THEN parents[i + 1] ELSE parents[1]
       IN  \/ \E c1 \in heap_crossover(heap, parent1, parent2) :
                \E c2 \in heap_crossover(c1.heap, parent2, parent1) :
                   /\ heap' = c2.heap
                   /\ child_pair' = <<c1.ref, c2.ref>>
           \/ LET c1 == dict_copy(heap, parent1)
                  c2 == dict_copy(c1.heap, parent2)
              IN  /\ heap' = c2.heap
                  /\ child_pair' = <<c1.ref, c2.ref>>
    /\ pc' = "ga_mutate"
    /\ UNCHANGED <<population, fitness_scores, violations, generation, best_fitness,
                   best_individual, parents, offspring, offspring_fitness, optimized_schedule,
                   genVars, createVars, routeVars, classVars, refVars>>

(* create_offspring, the same pair: mutation and offspring.extend *)
GAMutate ==
    /\ pc = "ga_mutate"
    /\ \E m1 \in heap_mutate(heap, child_pair[1]) :
         \E m2 \in heap_mutate(m1.heap, child_pair[2]) :
            /\ heap' = m2.heap
            /\ offspring' = offspring \o <<m1.ref, m2.ref>>
            /\ pc' = IF Len(offspring) + 2 >= Len(parents) THEN "ga_replace"
                     ELSE "ga_cross"
    /\ UNCHANGED <<population, fitness_scores, violations, generation, best_fitness,
                   best_individual, parents, child_pair, offspring_fitness, optimized_schedule,
                   genVars, createVars, routeVars, classVars, refVars>>

(* population = self.elitist_replacement(population, offspring, fitness_scores) *)
(* and the test of "for generation in range(self.generations)"                *)
GAReplace ==
    /\ pc = "ga_replace"
    /\ \E ofs \in evaluate_population_fitness(heap, offspring) :
         /\ offspring_fitness' = ofs
         /\ population' = elitist_replacement(population, offspring,
                                              fitness_scores, ofs)
    /\ generation' = generation + 1
    /\ pc' = IF generation + 1 < self.generations THEN "ga_loop" ELSE "ga_done"
    /\ UNCHANGED <<heap, fitness_scores, violations, best_fitness, best_individual, optimized_schedule,
                   parents, child_pair, offspring, genVars, createVars, routeVars, classVars, refVars>>

(* return best_individual or initial_schedule: None and the empty dict are    *)
(* both false                                                                  *)
GAReturn ==
    /\ pc = "ga_done"
    /\ optimized_schedule' = IF best_individual # 0 /\ DictLen(heap[best_individual]) > 0
                             THEN best_individual
                             ELSE 1
    /\ pc' = "ga_returned"
    /\ UNCHANGED <<evalVars, generation, best_fitness, best_individual, parents,
                   child_pair, offspring, offspring_fitness, genVars, createVars,
                   routeVars, classVars, refVars>>

NextGA ==
    \/ GAInit \/ GAEvaluate \/ GASelect
    \/ GACrossover \/ GAMutate \/ GAReplace \/ GAReturn

SpecGA == InitGA /\ [][NextGA]_vars

(* genetic_algorithm_optimization run to its end: runs of up to LiveGenerations *)
(* generations from the schedule without activities, and of LiveGenerations    *)
(* generations from a schedule of two lessons of one section in the same slot; *)
(* the interpreter executes the next statement of the call as long as there is *)
(* one                                                                         *)
LiveGenerations == 2

GAb == MakeActivityId(1, 2, 2, 2, 1)

GAClash ==
    [keys |-> <<GAa, GAb>>,
     val |-> <<TimeSlot(1, 1, StartHour(1)), TimeSlot(1, 1, StartHour(1))>>]

InitGALive ==
    /\ pc = "ga_start"
    /\ \E input \in {<<EmptyDict, g>> : g \in 1..LiveGenerations}
                     \cup {<<GAClash, LiveGenerations>>} :
          /\ heap = <<input[1]>>
          /\ self = [generations |-> input[2]]
    /\ population = <<>>
    /\ fitness_scores = <<>>
    /\ violations = <<>>
    /\ GenIdle
    /\ GAIdle
    /\ RefIdle
    /\ CreateIdle
    /\ RouteIdle
    /\ ClassIdle

SpecGALive == InitGALive /\ [][NextGA]_vars /\ WF_vars(NextGA)

----------------------------------------------------------------------------
(* constraint_satisfaction_refinement(schedule); heap[1] is the argument *)

RefA == MakeActivityId(1, 1, 1, 1, 0)
RefB == MakeActivityId(1, 2, 2, 2, 0)
RefC == MakeActivityId(2, 1, 2, 1, 0)

RefPeriods == {2, 3, periods_per_day}

RefSchedules ==
    UNION {{[keys |-> k, val |-> [i \in DOMAIN k |-> TimeSlot(1, p[i], StartHour(p[i]))]] :
              p \in [DOMAIN k -> RefPeriods]} :
           k \in {<<RefA>>, <<RefA, RefB>>, <<RefA, RefC>>}}

InitRefine ==
    /\ pc = "refine_start"
    /\ heap \in {<<sch>> : sch \in RefSchedules}
    /\ population = <<>>
    /\ fitness_scores = <<>>
    /\ violations = <<>>
    /\ self \in {[working_days |-> wd] : wd \in {<<1>>}}
    /\ GenIdle
    /\ GAIdle
    /\ RefIdle
    /\ CreateIdle
    /\ RouteIdle
    /\ ClassIdle

(* refined_schedule = schedule.copy() *)
RefineStart ==
    /\ pc = "refine_start"
    /\ refined_schedule' = heap[1]
    /\ attempt' = 0
    /\ ref_cursor' = 1
    /\ improved' = FALSE
    /\ pc' = "refine"
    /\ UNCHANGED <<best_score, prev_score, moved, prev_moved,
                   evalVars, gaVars, genVars, createVars, routeVars, classVars>>

(* one iteration of "for activity_id in refined_schedule.keys()" *)
RefineStep ==
    /\ pc = "refine"
    /\ ref_cursor <= DictLen(refined_schedule)
    /\ LET activity_id == refined_schedule.keys[ref_cursor]
           current_slot == refined_schedule.val[ref_cursor]
       IN  \E first_score \in evaluate_soft_constraints(refined_schedule) :
             \E best_slot \in find_best_slot_for_activity(activity_id, refined_schedule,
                                  get_available_slots(self.working_days), first_score) :
                /\ IF ~SlotEq(best_slot, current_slot)
                   THEN /\ refined_schedule' = DictSet(refined_schedule, activity_id,
                                                       best_slot)
                        /\ improved' = TRUE
                        /\ moved' = TRUE
                   ELSE /\ UNCHANGED <<refined_schedule, improved>>
                        /\ moved' = FALSE
                /\ best_score' = first_score
                /\ prev_score' = best_score
                /\ prev_moved' = moved
    /\ ref_cursor' = ref_cursor + 1
    /\ UNCHANGED <<pc, attempt, evalVars, gaVars, genVars, createVars, routeVars, classVars>>

(* the end of an improvement attempt: break, next attempt, or return *)
RefineAttemptEnd ==
    /\ pc = "refine"
    /\ ref_cursor > DictLen(refined_schedule)
    /\ attempt' = attempt + 1
    /\ IF ~improved \/ attempt + 1 >= RefineAttempts
       THEN /\ pc' = "refined"
            /\ UNCHANGED <<ref_cursor, improved>>
       ELSE /\ pc' = "refine"
            /\ ref_cursor' = 1
            /\ improved' = FALSE
    /\ UNCHANGED <<refined_schedule, best_score, prev_score, moved, prev_moved,
                   evalVars, gaVars, genVars, createVars, routeVars, classVars>>

NextRefine == RefineStart \/ RefineStep \/ RefineAttemptEnd

SpecRefine == InitRefine /\ [][NextRefine]_vars

----------------------------------------------------------------------------
(* get_available_slots applied to the configured working days *)

MaxGridDays == 4

(* the lists of n distinct days settings['working_days'] can hold *)
RECURSIVE DayLists(_)
DayLists(n) ==
    IF n = 0 THEN {<<>>}
    ELSE UNION {{Append(l, d) : d \in (1..MaxGridDays) \ Range(l)} :
                l \in DayLists(n - 1)}

InitSlots ==
    /\ pc = "slots"
    /\ self \in {[working_days |-> wd] :
                    wd \in UNION {DayLists(n) : n \in 0..MaxGridDays}}
    /\ GenIdle
    /\ EvalIdle
    /\ GAIdle
    /\ RefIdle
    /\ CreateIdle
    /\ RouteIdle
    /\ ClassIdle

GetAvailableSlots ==
    /\ pc = "slots"
    /\ slot_catalog' = get_available_slots(self.working_days)
    /\ pc' = "slots_done"
    /\ UNCHANGED <<teacher_usage, room_usage, skipped, suitable_classroom,
                   genVars, evalVars, gaVars, refVars, routeVars, classVars>>

SpecSlots == InitSlots /\ [][GetAvailableSlots]_vars

----------------------------------------------------------------------------
(* create_activities, one weekly occurrence at a time *)

MaxOverCap == 2

(* one section and one subject of more weekly classes than a teacher may be    *)
(* given                                                                       *)
LoadInputs(app_mode) ==
    {[sections |-> <<[id |-> 1, capacity |-> DefaultSectionCapacity,
                      department_id |-> 1]>>,
      teachers |-> te,
      classrooms |-> <<[id |-> 1, capacity |-> 40]>>,
      subjects_or_courses |-> <<[id |-> 1, credits |-> TeacherLoadCap + MaxOverCap,
                                 department_id |-> 1]>>,
      app_mode |-> app_mode,
      working_days |-> <<1>>] : te \in TeacherInputs(app_mode, 1)}

InitCreate ==
    /\ pc = "create"
    /\ \E app_mode \in {"school", "college"} :
          self \in GeneratorInputs(app_mode) \cup LoadInputs(app_mode)
    /\ GenIdle
    /\ EvalIdle
    /\ GAIdle
    /\ RefIdle
    /\ CreateIdle
    /\ RouteIdle
    /\ ClassIdle

(* one iteration of "for class_num in range(credits)"; cursor counts the       *)
(* occurrences handled                                                         *)
CreateStep ==
    /\ pc = "create"
    /\ cursor < Len(Occurrences(self))
    /\ LET raised_so_far == Cardinality({k \in DOMAIN activities :
                                            activities[k].priority > 1})
       IN  \E p \in IF raised_so_far < MaxRaised THEN 1..MaxPriority ELSE {1} :
             LET st == CreateFrom(self, <<Occurrences(self)[cursor + 1]>>, <<p>>, 1,
                          [activities |-> activities, teacher_usage |-> teacher_usage,
                           room_usage |-> room_usage, skipped |-> skipped,
                           raised |-> FALSE])
             IN  /\ activities' = st.activities
                 /\ teacher_usage' = st.teacher_usage
                 /\ room_usage' = st.room_usage
                 /\ skipped' = st.skipped
                 /\ suitable_classroom' =
                       IF Len(st.activities) > Len(activities)
                       THEN st.activities[Len(st.activities)].room_id
                       ELSE suitable_classroom
                 /\ pc' = IF st.raised THEN "raised" ELSE "create"
    /\ cursor' = cursor + 1
    /\ UNCHANGED <<self, schedule, teacher_schedule, room_schedule, section_schedule,
                   phases, entries, slot_catalog, evalVars, gaVars, refVars, routeVars, classVars>>

(* the end of the loops: the average printed divides by len(self.sections) *)
CreateReturn ==
    /\ pc = "create"
    /\ cursor = Len(Occurrences(self))
    /\ pc' = IF Len(self.sections) = 0 THEN "raised" ELSE "created"
    /\ UNCHANGED <<genVars, evalVars, gaVars, refVars, createVars, routeVars, classVars>>

SpecCreate == InitCreate /\ [][CreateStep \/ CreateReturn]_vars

----------------------------------------------------------------------------
(* The selection of a classroom in create_activities, for the usage counts the *)
(* loop can have accumulated: a room reaches a count of n once n occurrences   *)
(* have been placed in it, which takes n weekly classes in all (17 sections of *)
(* 30 classes a week pass 500).                                                *)

MaxUsage == 501

UsageCounts == {0, 1, 2, MaxUsage - 2, MaxUsage - 1, MaxUsage}

InitClassroom ==
    /\ pc = "select"
    /\ \E cl \in ClassroomInputs :
          /\ cl # <<>>
          /\ self = [classrooms |-> cl,
                     sections |-> <<[id |-> 1, capacity |-> DefaultSectionCapacity,
                                     department_id |-> 1]>>]
          /\ \E usage \in [1..Len(cl) -> UsageCounts] :
                room_usage = [id \in {cl[i].id : i \in {j \in DOMAIN cl : usage[j] > 0}}
                                 |-> usage[id]]
    /\ teacher_usage = <<>>
    /\ skipped = <<>>
    /\ suitable_classroom = 0
    /\ slot_catalog = <<>>
    /\ GenIdle
    /\ EvalIdle
    /\ GAIdle
    /\ RefIdle
    /\ RouteIdle
    /\ ClassIdle

(* suitable_classroom = min(self.classrooms, key=classroom_score) *)
SelectClassroom ==
    /\ pc = "select"
    /\ suitable_classroom' =
          self.classrooms[SuitableClassroom(self, self.sections[1], room_usage)].id
    /\ pc' = "selected"
    /\ UNCHANGED <<teacher_usage, room_usage, skipped, slot_catalog,
                   genVars, evalVars, gaVars, refVars, routeVars, classVars>>

SpecClassroom == InitClassroom /\ [][SelectClassroom]_vars

----------------------------------------------------------------------------
(* fallback_assignment(activities, available_slots), applied to the created    *)
(* activities and the slot list of the generator                               *)

InitFallback ==
    /\ pc = "fallback"
    /\ \E app_mode \in {"school", "college"} :
          \E g \in GeneratorInputs(app_mode) :
             LET st == create_activities(g, [i \in 1..Len(Occurrences(g)) |-> 1])
             IN  /\ ~st.raised
                 /\ self = g
                 /\ activities = st.activities
                 /\ slot_catalog = get_available_slots(g.working_days)
    /\ cursor = 1
    /\ schedule = EmptyDict
    /\ teacher_schedule = <<>>
    /\ room_schedule = <<>>
    /\ section_schedule = <<>>
    /\ phases = <<>>
    /\ entries = <<>>
    /\ teacher_usage = <<>>
    /\ room_usage = <<>>
    /\ skipped = <<>>
    /\ suitable_classroom = 0
    /\ EvalIdle
    /\ GAIdle
    /\ RefIdle
    /\ RouteIdle
    /\ ClassIdle

(* one iteration of "for activity in activities"; assigned_count is the number *)
(* of keys of schedule, the ids of the activities being distinct               *)
FallbackStep ==
    /\ pc = "fallback"
    /\ cursor <= Len(activities)
    /\ DictLen(schedule) < Len(self.sections)
    /\ LET activity == activities[cursor]
           taken == DDGet(section_schedule, activity.section_id, {})
           ok == {i \in DOMAIN slot_catalog :
                     ~\E s \in taken : SlotEq(s, slot_catalog[i])}
       IN  IF ok = {}
           THEN UNCHANGED <<schedule, teacher_schedule, room_schedule,
                            section_schedule>>
           ELSE LET time_slot == slot_catalog[CHOOSE i \in ok : \A j \in ok : i <= j]
                IN  /\ schedule' = DictSet(schedule, activity.id, time_slot)
                    /\ teacher_schedule' = DDPut(teacher_schedule, activity.teacher_id,
                          DDGet(teacher_schedule, activity.teacher_id, {})
                             \cup {time_slot})
                    /\ room_schedule' = DDPut(room_schedule, activity.room_id,
                          DDGet(room_schedule, activity.room_id, {}) \cup {time_slot})
                    /\ section_schedule' = DDPut(section_schedule, activity.section_id,
                          taken \cup {time_slot})
    /\ cursor' = cursor + 1
    /\ UNCHANGED <<pc, self, activities, phases, entries, evalVars, gaVars, refVars,
                   createVars, routeVars, classVars>>

(* the break on assigned_count >= len(self.sections), or the end of the list *)
FallbackReturn ==
    /\ pc = "fallback"
    /\ cursor > Len(activities) \/ DictLen(schedule) >= Len(self.sections)
    /\ pc' = "fallback_done"
    /\ UNCHANGED <<genVars, evalVars, gaVars, refVars, createVars, routeVars, classVars>>

SpecFallback == InitFallback /\ [][FallbackStep \/ FallbackReturn]_vars

----------------------------------------------------------------------------
(* routes/timetable.py: the generate_timetable request.  Days are numbered     *)
(* from Monday = 1; the names of days have at most ten characters.             *)

(* settings['working_days'] as stored: a JSON list (<<"list", days>>), a text  *)
(* starting with "[" that is not JSON, one of the two ranges, or another text  *)
WorkingDaysRaw ==
    {<<"list", wd>> : wd \in {<<>>, <<1>>}}
        \cup {<<"invalid">>, <<"Monday - Friday">>, <<"Monday - Saturday">>, <<"other">>}

ParseWorkingDays(working_days_raw) ==
    CASE working_days_raw[1] = "list" -> working_days_raw[2]
      [] working_days_raw[1] = "Monday - Saturday" -> <<1, 2, 3, 4, 5, 6>>
      [] OTHER -> <<1, 2, 3, 4, 5>>

(* a TimetableEntry row stored by an earlier request *)
StoredEntry ==
    [day |-> 1, period |-> 1, teacher_id |-> 1, section_id |-> 1,
     classroom_id |-> 1, subject_id |-> 1, course_id |-> 0]

RouteInputs(app_mode) ==
    {[teachers |-> [i \in 1..nt |->
                       [id |-> i,
                        subjects |-> IF app_mode = "school" THEN {1} ELSE {},
                        courses |-> IF app_mode = "school" THEN {} ELSE {1}]],
      sections |-> [i \in 1..Len(st) |->
                       [id |-> i, capacity |-> DefaultSectionCapacity,
                        department_id |-> 1, students |-> st[i]]],
      classrooms |-> [i \in 1..nr |-> [id |-> i, capacity |-> 40]],
      subjects_or_courses |-> [i \in 1..Len(cr) |->
                                  [id |-> i, credits |-> cr[i], department_id |-> 1]],
      app_mode |-> app_mode,
      working_days_raw |-> raw,
      timetable_entries |-> old] :
        nt \in 0..MaxTeachers, nr \in 0..MaxRooms,
        st \in UNION {[1..n -> {0, 1}] : n \in 0..MaxSections},
        cr \in {<<>>} \cup {<<c>> : c \in 1..MaxCredits},
        raw \in WorkingDaysRaw, old \in {<<>>, <<StoredEntry>>}}

(* two sections with students, two subjects/courses of one weekly class, one    *)
(* teacher for each of them, two classrooms, one working day                    *)
RouteTwoSubjects(app_mode) ==
    {[teachers |-> [i \in 1..2 |->
                       [id |-> i,
                        subjects |-> IF app_mode = "school" THEN {i} ELSE {},
                        courses |-> IF app_mode = "school" THEN {} ELSE {i}]],
      sections |-> [i \in 1..2 |->
                       [id |-> i, capacity |-> DefaultSectionCapacity,
                        department_id |-> 1, students |-> 1]],
      classrooms |-> [i \in 1..2 |-> [id |-> i, capacity |-> 40]],
      subjects_or_courses |-> [i \in 1..2 |->
                                  [id |-> i, credits |-> 1, department_id |-> 1]],
      app_mode |-> app_mode,
      working_days_raw |-> <<"list", <<1>>>>,
      timetable_entries |-> old] : old \in {<<>>, <<StoredEntry>>}}

InitRoute ==
    /\ pc = "route"
    /\ \E app_mode \in {"school", "college"} :
           db \in RouteInputs(app_mode) \cup RouteTwoSubjects(app_mode)
    /\ db_entries = db.timetable_entries
    /\ response = 0
    /\ self = <<>>
    /\ activities = <<>>
    /\ cursor = 0
    /\ schedule = EmptyDict
    /\ teacher_schedule = <<>>
    /\ room_schedule = <<>>
    /\ section_schedule = <<>>
    /\ phases = <<>>
    /\ entries = <<>>
    /\ EvalIdle
    /\ GAIdle
    /\ RefIdle
    /\ CreateIdle
    /\ ClassIdle

(* the request up to the construction of the generator: the queries, the checks *)
(* of the collections, the settings, the sections with students, the deletion   *)
(* of the stored entries and its commit, which succeeds or raises               *)
RouteCheck ==
    /\ pc = "route"
    /\ LET sections_with_students ==
               SelectSeq(db.sections, LAMBDA section : section.students > 0)
       IN  IF \/ db.teachers = <<>>
              \/ db.sections = <<>>
              \/ db.classrooms = <<>>
              \/ db.subjects_or_courses = <<>>
              \/ sections_with_students = <<>>
           THEN /\ response' = 400
                /\ pc' = "responded"
                /\ UNCHANGED <<self, db_entries>>
           ELSE \E committed \in BOOLEAN :
                  IF committed
                  THEN /\ db_entries' = <<>>
                       /\ self' = [sections |-> sections_with_students,
                                   teachers |-> db.teachers,
                                   classrooms |-> db.classrooms,
                                   subjects_or_courses |-> db.subjects_or_courses,
                                   app_mode |-> db.app_mode,
                                   working_days |->
                                       ParseWorkingDays(db.working_days_raw)]
                       /\ pc' = "generate"
                       /\ UNCHANGED response
                  ELSE /\ pc' = "raised"      \* db.session.commit() raises
                       /\ UNCHANGED <<self, db_entries, response>>
    /\ UNCHANGED <<db, activities, cursor, schedule, teacher_schedule, room_schedule,
                   section_schedule, phases, entries, evalVars, gaVars, refVars,
                   createVars, classVars>>

(* the loop over algorithm_entries from entry i on; st = [saved, teachers,      *)
(* rooms, times]: the rows added to the session and assigned_resources          *)
RECURSIVE SaveFrom(_, _, _)
SaveFrom(algorithm_entries, i, st) ==
    IF i > Len(algorithm_entries) THEN st
    ELSE
        LET entry_data == algorithm_entries[i]
            day == entry_data.day
            period == entry_data.period
            teacher_key == <<entry_data.teacher_id, day, period>>
            room_key == <<entry_data.classroom_id, day, period>>
            time_key == <<day, period>>
        IN  IF \/ teacher_key \in st.teachers
               \/ room_key \in st.rooms
               \/ time_key \in st.times
            THEN SaveFrom(algorithm_entries, i + 1, st)
            ELSE SaveFrom(algorithm_entries, i + 1,
                    [saved |-> Append(st.saved, entry_data),
                     teachers |-> st.teachers \cup {teacher_key},
                     rooms |-> st.rooms \cup {room_key},
                     times |-> st.times \cup {time_key}])

(* the request after generator.generate() returned: the entries are added to    *)
(* the session and committed, or the commit fails and is rolled back            *)
RouteSave ==
    /\ pc = "returned"
    /\ LET st == SaveFrom(entries, 1,
                     [saved |-> <<>>, teachers |-> {}, rooms |-> {}, times |-> {}])
       IN  \E committed \in BOOLEAN :
              IF committed
              THEN /\ db_entries' = db_entries \o st.saved
                   /\ response' = 200
              ELSE /\ db_entries' = db_entries
                   /\ response' = 500
    /\ pc' = "responded"
    /\ UNCHANGED <<db, genVars, evalVars, gaVars, refVars, createVars, classVars>>

(* the handler of an exception raised since the checks: rollback and error     *)
(* response                                                                    *)
RouteFail ==
    /\ pc = "raised"
    /\ response' = 500
    /\ pc' = "responded"
    /\ UNCHANGED <<db, db_entries, genVars, evalVars, gaVars, refVars, createVars,
                   classVars>>

SpecRoute ==
    InitRoute /\ [][RouteCheck \/ NextGenerate \/ RouteSave \/ RouteFail]_vars

----------------------------------------------------------------------------
(* GeneticOperators.mutate, the mutation 'exchange' of one activity; heap[1]  *)
(* is the individual, the object added is the copy returned                   *)

InitExchange ==
    /\ pc = "exchange"
    /\ \E n \in 0..MaxValActs : heap \in {<<sch>> : sch \in ValSchedules(n)}
    /\ population = <<>>
    /\ fitness_scores = <<>>
    /\ violations = <<>>
    /\ self = <<>>
    /\ GenIdle
    /\ GAIdle
    /\ RefIdle
    /\ CreateIdle
    /\ RouteIdle
    /\ ClassIdle

(* mutated = individual.copy(); for the activity drawn: compatible =          *)
(* find_compatible_activities(activity_id, mutated), and the exchange with a   *)
(* random one of them if there is any                                          *)
ExchangeMutation ==
    /\ pc = "exchange"
    /\ \E activity_id \in DictKeySet(heap[1]) :
         LET mutated == heap[1]
             compatible == find_compatible_activities(activity_id, mutated)
         IN  \E target \in (IF compatible # {} THEN compatible ELSE {activity_id}) :
                heap' = Append(heap, IF compatible # {}
                                     THEN DictSwap(mutated, activity_id, target)
                                     ELSE mutated)
    /\ pc' = "exchanged"
    /\ UNCHANGED <<population, fitness_scores, violations, generation, best_fitness,
                   best_individual, parents, child_pair, offspring,
                   offspring_fitness, optimized_schedule, genVars, refVars,
                   createVars, routeVars, classVars>>

SpecExchange == InitExchange /\ [][ExchangeMutation]_vars

----------------------------------------------------------------------------
(* genetic_algorithm.py: the class timetable of appV.py over the tables of    *)
(* init_db.py.  lookup.courses, .teachers, .rooms and .groups are indexed by   *)
(* id; a nullable column that is None holds 0 (an integer) or "" (a string).   *)

DAYS == <<"Mon", "Tue", "Wed", "Thu", "Fri">>
SLOTS_PER_DAY == 6
HARD_PENALTY == -1000000
SOFT_PENALTY == -5
EarlyStart == 2
EarlyReward == 20
LateReward == 2

(* the population and the generations of a run, the days random.choice(DAYS)  *)
(* can draw (the first MaxClassDays) and the greatest start_slot              *)
(* random.randint can draw                                                     *)
ClassPopulationSize == 3
ClassGenerations == 2
MaxClassDays == 1
MaxClassStart == 2

room_suits(course, room, group) ==
    LET min_cap == IF course.required_capacity # 0 THEN course.required_capacity
                   ELSE group.size
    IN  /\ ~(room.capacity < min_cap)
        /\ ~(course.required_room_type # "" /\ room.room_type # course.required_room_type)
        /\ course.required_features \subseteq room.features

(* the courses of lookup['assignments_by_course'] in the order of their first  *)
(* CourseAssignment row                                                        *)
RECURSIVE CourseOrder(_, _)
CourseOrder(rows, seen) ==
    IF rows = <<>> THEN seen
    ELSE CourseOrder(Tail(rows),
                     IF \E k \in DOMAIN seen : seen[k] = Head(rows)[1] THEN seen
                     ELSE Append(seen, Head(rows)[1]))

(* create_initial_population: the (course_id, group_id) pairs to schedule *)
AssignmentPairs(lk) ==
    LET order == CourseOrder(lk.assignments, <<>>)
    IN  FlattenSeq([k \in DOMAIN order |->
            SelectSeq(lk.assignments, LAMBDA row : row[1] = order[k])])

DrawnDays == {DAYS[d] : d \in 1..MaxClassDays}

(* random.randint(1, max(1, SLOTS_PER_DAY - duration + 1)) *)
DrawnStarts(duration) ==
    LET top == IF SLOTS_PER_DAY - duration + 1 > 1 THEN SLOTS_PER_DAY - duration + 1
               ELSE 1
    IN  {s \in 1..top : s <= MaxClassStart}

(* the rooms a gene of the course and group can be given: a suitable one, or  *)
(* any when none suits                                                         *)
DrawnRooms(lk, course, group) ==
    LET suitable == {r \in DOMAIN lk.rooms : room_suits(course, lk.rooms[r], group)}
    IN  IF suitable # {} THEN suitable ELSE DOMAIN lk.rooms

(* create_initial_population: the genes chrom.append can add for one pair *)
InitialGenes(lk, course_id, group_id) ==
    LET course == lk.courses[course_id]
        duration == IF course.duration # 0 THEN course.duration ELSE 1
    IN  {[course_id |-> course_id, group_id |-> group_id, teacher_id |-> t,
          room_id |-> r, day |-> day, start_slot |-> start, duration |-> duration] :
            t \in (IF course.teacher_id # 0 THEN {course.teacher_id}
                   ELSE DOMAIN lk.teachers),
            r \in DrawnRooms(lk, course, lk.groups[group_id]),
            day \in DrawnDays,
            start \in DrawnStarts(duration)}

(* create_initial_population: the populations it can return *)
class_create_initial_population(lk) ==
    LET pairs == AssignmentPairs(lk)
        chroms == SeqProduct([k \in DOMAIN pairs |->
                                 InitialGenes(lk, pairs[k][1], pairs[k][2])])
    IN  [1..ClassPopulationSize -> chroms]

(* the slots range(start, start + duration) of a gene *)
GeneSlots(a) == a.start_slot..(a.start_slot + a.duration - 1)

(* key in teacher_map / room_map / group_map when gene i reaches slot s: an    *)
(* earlier gene added the same (id, day, s)                                    *)
KeySeen(c, i, s, field) ==
    \E j \in 1..(i - 1) :
        /\ c[j][field] = c[i][field]
        /\ c[j].day = c[i].day
        /\ s \in GeneSlots(c[j])

(* teacher_day_count[tid][day] and teacher_week_count[tid] after the loop *)
teacher_day_count(c, tid, day) ==
    SetSum({i \in DOMAIN c : c[i].teacher_id = tid /\ c[i].day = day},
           [i \in DOMAIN c |-> Cardinality(GeneSlots(c[i]))])

teacher_week_count(c, tid) ==
    SetSum({i \in DOMAIN c : c[i].teacher_id = tid},
           [i \in DOMAIN c |-> Cardinality(GeneSlots(c[i]))])

TeachersOf(c) == {c[i].teacher_id : i \in DOMAIN c}
DaysOf(c, tid) == {c[i].day : i \in {k \in DOMAIN c : c[k].teacher_id = tid}}

(* the hours above the limit, 0 without a limit *)
ExcessAboveOne(count, limit) == IF limit # 0 /\ count > limit + 1 THEN count - limit ELSE 0

Excess(count, limit) == IF limit # 0 /\ count > limit THEN count - limit ELSE 0

(* compute_fitness: how many times HARD_PENALTY is added to the score *)
HardTerms(c, lk) ==
    SetSum(DOMAIN c,
           [i \in DOMAIN c |->
              (IF room_suits(lk.courses[c[i].course_id], lk.rooms[c[i].room_id],
                             lk.groups[c[i].group_id]) THEN 0 ELSE 1)
              + (IF c[i].start_slot < 1
                    \/ c[i].start_slot + c[i].duration - 1 > SLOTS_PER_DAY
                 THEN 1 ELSE 0)
              + Cardinality({s \in GeneSlots(c[i]) : KeySeen(c, i, s, "teacher_id")})
              + Cardinality({s \in GeneSlots(c[i]) : KeySeen(c, i, s, "room_id")})
              + Cardinality({s \in GeneSlots(c[i]) : KeySeen(c, i, s, "group_id")})])
    + SetSum(TeachersOf(c),
             [tid \in TeachersOf(c) |->
                SetSum(DaysOf(c, tid),
                       [day \in DaysOf(c, tid) |->
                          Excess(teacher_day_count(c, tid, day),
                                 lk.teachers[tid].max_hours_per_day)])
                + Excess(teacher_week_count(c, tid),
                         lk.teachers[tid].max_hours_per_week)])

(* compute_fitness: the reward of the course priorities *)
PriorityReward(c, lk) ==
    SetSum(DOMAIN c,
           [i \in DOMAIN c |->
              LET priority == lk.courses[c[i].course_id].priority
              IN  IF priority # 0 /\ c[i].start_slot <= EarlyStart
                  THEN priority * EarlyReward
                  ELSE priority * LateReward])

(* sorted(slots) of teacher_slots[tid][day]: every slot as often as a gene of *)
(* the teacher covers it on that day                                           *)
RECURSIVE SortedSlots(_, _, _, _)
SortedSlots(c, tid, day, s) ==
    IF s > SLOTS_PER_DAY + 2 THEN <<>>
    ELSE [k \in 1..Cardinality({i \in DOMAIN c : /\ c[i].teacher_id = tid
                                                  /\ c[i].day = day
                                                  /\ s \in GeneSlots(c[i])}) |-> s]
         \o SortedSlots(c, tid, day, s + 1)

(* compute_fitness: the soft penalties of the gaps between a teacher's slots *)
GapPenalty(c, lk) ==
    SetSum(TeachersOf(c),
           [tid \in TeachersOf(c) |->
              LET min_gap == lk.teachers[tid].min_gap_between_classes
              IN  IF min_gap > 0
                  THEN SetSum(DaysOf(c, tid),
                         [day \in DaysOf(c, tid) |->
                            LET ssorted == SortedSlots(c, tid, day, 0)
                            IN  SetSum(1..(Len(ssorted) - 1),
                                  [i \in 1..(Len(ssorted) - 1) |->
                                     LET gap == ssorted[i + 1] - ssorted[i] - 1
                                     IN  IF gap < min_gap
                                         THEN SOFT_PENALTY * (min_gap - gap)
                                         ELSE 0])])
                  ELSE 0])

compute_fitness(c, lk) ==
    HARD_PENALTY * HardTerms(c, lk) + PriorityReward(c, lk) + GapPenalty(c, lk)

(* validate_schedule: the violations of gene i at the slots from s on *)
RECURSIVE SlotViolations(_, _, _)
SlotViolations(c, i, s) ==
    IF s > c[i].start_slot + c[i].duration - 1 THEN <<>>
    ELSE (IF KeySeen(c, i, s, "teacher_id")
          THEN <<[kind |-> "teacher double-booked", id |-> c[i].teacher_id,
                  day |-> c[i].day, slot |-> s]>>
          ELSE <<>>)
         \o (IF KeySeen(c, i, s, "room_id")
             THEN <<[kind |-> "room double-booked", id |-> c[i].room_id,
                     day |-> c[i].day, slot |-> s]>>
             ELSE <<>>)
         \o (IF KeySeen(c, i, s, "group_id")
             THEN <<[kind |-> "group double-booked", id |-> c[i].group_id,
                     day |-> c[i].day, slot |-> s]>>
             ELSE <<>>)
         \o SlotViolations(c, i, s + 1)

(* validate_schedule: the violations of the genes from i on *)
RECURSIVE GeneViolations(_, _, _)
GeneViolations(c, lk, i) ==
    IF i > Len(c) THEN <<>>
    ELSE (IF room_suits(lk.courses[c[i].course_id], lk.rooms[c[i].room_id],
                        lk.groups[c[i].group_id])
          THEN <<>>
          ELSE <<[kind |-> "room unsuitable", id |-> c[i].room_id,
                  day |-> c[i].day, slot |-> c[i].start_slot]>>)
         \o (IF c[i].start_slot < 1
                \/ c[i].start_slot + c[i].duration - 1 > SLOTS_PER_DAY
             THEN <<[kind |-> "out-of-bounds start_slot", id |-> c[i].course_id,
                     day |-> c[i].day, slot |-> c[i].start_slot]>>
             ELSE <<>>)
         \o SlotViolations(c, i, c[i].start_slot)
         \o GeneViolations(c, lk, i + 1)

(* the keys of teacher_day_count, and of one teacher's days, by first gene *)
RECURSIVE FirstSeen(_, _)
FirstSeen(values, seen) ==
    IF values = <<>> THEN seen
    ELSE FirstSeen(Tail(values),
                   IF \E k \in DOMAIN seen : seen[k] = Head(values) THEN seen
                   ELSE Append(seen, Head(values)))

(* validate_schedule: the violations of the teachers' hour limits *)
WorkloadViolations(c, lk) ==
    LET busy == SelectSeq(c, LAMBDA a : a.duration > 0)
        tids == FirstSeen([k \in DOMAIN busy |-> busy[k].teacher_id], <<>>)
        of(tid) ==
            LET mine == SelectSeq(busy, LAMBDA a : a.teacher_id = tid)
                days == FirstSeen([k \in DOMAIN mine |-> mine[k].day], <<>>)
                t == lk.teachers[tid]
            IN  (IF t.max_hours_per_day # 0
                 THEN FlattenSeq([d \in DOMAIN days |->
                        IF teacher_day_count(c, tid, days[d]) > t.max_hours_per_day
                        THEN <<[kind |-> "exceeds max_hours_per_day", id |-> tid,
                                day |-> days[d],
                                slot |-> teacher_day_count(c, tid, days[d])]>>
                        ELSE <<>>])
                 ELSE <<>>)
                \o (IF t.max_hours_per_week # 0
                       /\ teacher_week_count(c, tid) > t.max_hours_per_week
                    THEN <<[kind |-> "exceeds max_hours_per_week", id |-> tid,
                            day |-> "", slot |-> teacher_week_count(c, tid)]>>
                    ELSE <<>>)
    IN  FlattenSeq([k \in DOMAIN tids |-> of(tids[k])])

(* validate_schedule: (valid, violations) *)
validate_schedule(c, lk) ==
    LET list == GeneViolations(c, lk, 1) \o WorkloadViolations(c, lk)
    IN  [valid |-> Len(list) = 0, violations |-> list]

(* tournament_selection: the chromosome of greatest fitness among k = 3        *)
(* distinct indices drawn, the first such in the order drawn                   *)
class_tournament_selection(pop, fits) ==
    {pop[i] : i \in {b \in DOMAIN pop :
                        \E chosen \in SUBSET (DOMAIN pop) :
                            /\ Cardinality(chosen) = TournamentSize
                            /\ b \in chosen
                            /\ \A j \in chosen : fits[j] <= fits[b]}}

(* a crossover that fills the suffix of each child with the first genes of the *)
(* other parent                                                                *)
class_crossover_misaligned(parent1, parent2) ==
    LET size == Len(parent1)
    IN  IF size <= 1 THEN {<<parent1, parent2>>}
        ELSE {<<SubSeq(parent1, 1, pt) \o SubSeq(parent2, 1, size - pt),
                SubSeq(parent2, 1, pt) \o SubSeq(parent1, 1, size - pt)>> :
                pt \in 1..(size - 1)}

(* crossover: single point; with at most one gene, copies of the parents *)
class_crossover(parent1, parent2) ==
    LET size == Len(parent1)
    IN  IF size <= 1 THEN {<<parent1, parent2>>}
        ELSE {<<SubSeq(parent1, 1, pt) \o SubSeq(parent2, pt + 1, Len(parent2)),
                SubSeq(parent2, 1, pt) \o SubSeq(parent1, pt + 1, Len(parent1))>> :
                pt \in 1..(size - 1)}

(* what mutate can make of the gene at idx *)
MutatedGenes(gene, lk) ==
    LET course == lk.courses[gene.course_id]
        dur == IF course.duration # 0 THEN course.duration ELSE 1
    IN  {[gene EXCEPT !.teacher_id = t] : t \in DOMAIN lk.teachers}
        \cup {[gene EXCEPT !.room_id = r] :
                r \in DrawnRooms(lk, course, lk.groups[gene.group_id])}
        \cup {[gene EXCEPT !.day = day] : day \in DrawnDays}
        \cup {[gene EXCEPT !.start_slot = start] : start \in DrawnStarts(dur)}

(* mutate: the chromosomes it can return: chrom itself, or a copy with one     *)
(* field of one gene drawn again                                               *)
class_mutate(c, lk) ==
    {c} \cup UNION {{[c EXCEPT ![idx] = g] : g \in MutatedGenes(c[idx], lk)} :
                      idx \in DOMAIN c}

(* mutate of a chromosome without genes can raise: random.randrange(0) *)
mutate_raises(c) == Len(c) = 0

----------------------------------------------------------------------------
(* run_class_timetable(run_notes, created_by) *)

TeacherRow(id, max_day, max_week, min_gap) ==
    [id |-> id, max_hours_per_day |-> max_day, max_hours_per_week |-> max_week,
     min_gap_between_classes |-> min_gap]

CourseRow(id, teacher_id, priority, room_type, capacity, duration) ==
    [id |-> id, teacher_id |-> teacher_id, priority |-> priority,
     required_room_type |-> room_type, required_capacity |-> capacity,
     required_features |-> {}, duration |-> duration]

RoomRow(id, capacity, room_type) ==
    [id |-> id, capacity |-> capacity, room_type |-> room_type, features |-> {}]

GroupRow(id, size) == [id |-> id, size |-> size]

(* the master data of the runs: no CourseAssignment; two courses of one        *)
(* teacher for one group; one course without a teacher of its own for one      *)
(* group, two teachers, a lecture room and a laboratory                        *)
ClassLookups ==
    {[courses |-> <<CourseRow(1, 1, 0, "", 0, 1)>>,
      teachers |-> <<TeacherRow(1, 0, 0, 0)>>,
      rooms |-> <<RoomRow(1, 40, "lecture")>>,
      groups |-> <<GroupRow(1, 30)>>,
      assignments |-> <<>>],
     [courses |-> <<CourseRow(1, 1, 1, "", 0, 1), CourseRow(2, 1, 0, "", 0, 1)>>,
      teachers |-> <<TeacherRow(1, 0, 0, 0)>>,
      rooms |-> <<RoomRow(1, 40, "lecture")>>,
      groups |-> <<GroupRow(1, 30)>>,
      assignments |-> <<<<1, 1>>, <<2, 1>>>>],
     [courses |-> <<CourseRow(1, 0, 0, "lecture", 0, 1)>>,
      teachers |-> <<TeacherRow(1, 0, 0, 0), TeacherRow(2, 0, 0, 0)>>,
      rooms |-> <<RoomRow(1, 40, "lecture"), RoomRow(2, 40, "lab")>>,
      groups |-> <<GroupRow(1, 30)>>,
      assignments |-> <<<<1, 1>>>>]}

InitClassGA ==
    /\ pc = "class_run"
    /\ lookup \in ClassLookups
    /\ chrom = <<>>
    /\ newpop = <<>>
    /\ fitnesses = <<>>
    /\ gen = 0
    /\ best_chrom = <<>>
    /\ result = <<>>
    /\ tt_runs = <<>>
    /\ tt_entries = <<>>
    /\ locks = {}
    /\ self = <<>>
    /\ GenIdle
    /\ EvalIdle
    /\ GAIdle
    /\ RefIdle
    /\ CreateIdle
    /\ RouteIdle

(* population = create_initial_population(lookup) *)
ClassStart ==
    /\ pc = "class_run"
    /\ population' \in class_create_initial_population(lookup)
    /\ pc' = IF 0 < ClassGenerations THEN "class_eval" ELSE "class_final"
    /\ UNCHANGED <<heap, fitness_scores, violations, genVars, gaVars, refVars,
                   createVars, routeVars, classVars>>

(* fitnesses = [compute_fitness(p, lookup) for p in population]; newpop = [] *)
ClassEvaluate ==
    /\ pc = "class_eval"
    /\ fitnesses' = [i \in DOMAIN population |-> compute_fitness(population[i], lookup)]
    /\ newpop' = <<>>
    /\ pc' = "class_breed"
    /\ UNCHANGED <<evalVars, genVars, gaVars, refVars, createVars, routeVars,
                   lookup, chrom, gen, best_chrom, result, tt_runs, tt_entries, locks>>

(* one pass of "while len(newpop) < POPULATION_SIZE" *)
ClassBreed ==
    /\ pc = "class_breed"
    /\ Len(newpop) < ClassPopulationSize
    /\ \E p1 \in class_tournament_selection(population, fitnesses),
          p2 \in class_tournament_selection(population, fitnesses) :
         \E children \in class_crossover(p1, p2) :
            \/ /\ mutate_raises(children[1]) \/ mutate_raises(children[2])
               /\ pc' = "class_raised"
               /\ UNCHANGED newpop
            \/ \E c1 \in class_mutate(children[1], lookup),
                  c2 \in class_mutate(children[2], lookup) :
                  /\ newpop' = IF Len(newpop) + 1 < ClassPopulationSize
                               THEN newpop \o <<c1, c2>>
                               ELSE Append(newpop, c1)
                  /\ pc' = "class_breed"
    /\ UNCHANGED <<evalVars, genVars, gaVars, refVars, createVars, routeVars,
                   lookup, chrom, fitnesses, gen, best_chrom, result, tt_runs,
                   tt_entries, locks>>

(* population = newpop, and the test of "for gen in range(GENERATIONS)" *)
ClassNextGeneration ==
    /\ pc = "class_breed"
    /\ Len(newpop) >= ClassPopulationSize
    /\ population' = newpop
    /\ gen' = gen + 1
    /\ pc' = IF gen + 1 < ClassGenerations THEN "class_eval" ELSE "class_final"
    /\ UNCHANGED <<heap, fitness_scores, violations, genVars, gaVars, refVars,
                   createVars, routeVars, lookup, chrom, newpop, fitnesses,
                   best_chrom, result, tt_runs, tt_entries, locks>>

(* the TimetableEntry rows added for the chromosome, with ids from next_id on *)
EntryRows(c, run_id, next_id) ==
    [k \in DOMAIN c |->
        [id |-> next_id + k - 1, run_id |-> run_id, day |-> c[k].day,
         start_slot |-> c[k].start_slot, duration |-> c[k].duration,
         course_id |-> c[k].course_id, teacher_id |-> c[k].teacher_id,
         room_id |-> c[k].room_id, group_id |-> c[k].group_id]]

(* the final best and the run and entries saved, without the validation *)
ClassFinishAlwaysSaves ==
    /\ pc = "class_final"
    /\ LET final == [i \in DOMAIN population |-> compute_fitness(population[i], lookup)]
           best_idx == CHOOSE i \in DOMAIN final :
                          /\ \A j \in DOMAIN final : final[j] <= final[i]
                          /\ \A j \in 1..(i - 1) : final[j] < final[i]
           run_id == Len(tt_runs) + 1
       IN  /\ fitnesses' = final
           /\ best_chrom' = population[best_idx]
           /\ tt_runs' = Append(tt_runs, [id |-> run_id])
           /\ tt_entries' = tt_entries
                 \o EntryRows(population[best_idx], run_id, Len(tt_entries) + 1)
           /\ result' = [ok |-> TRUE, run_id |-> run_id,
                         saved |-> Len(population[best_idx])]
    /\ pc' = "class_returned"
    /\ UNCHANGED <<evalVars, genVars, gaVars, refVars, createVars, routeVars,
                   lookup, chrom, newpop, gen, locks>>

(* the final best, its validation, and the run and entries saved *)
ClassFinish ==
    /\ pc = "class_final"
    /\ LET final == [i \in DOMAIN population |-> compute_fitness(population[i], lookup)]
           best_idx == CHOOSE i \in DOMAIN final :
                          /\ \A j \in DOMAIN final : final[j] <= final[i]
                          /\ \A j \in 1..(i - 1) : final[j] < final[i]
           checked == validate_schedule(population[best_idx], lookup)
           run_id == Len(tt_runs) + 1
       IN  /\ fitnesses' = final
           /\ best_chrom' = population[best_idx]
           /\ IF ~checked.valid
              THEN /\ result' = [ok |-> FALSE, violations |-> checked.violations]
                   /\ UNCHANGED <<tt_runs, tt_entries>>
              ELSE /\ tt_runs' = Append(tt_runs, [id |-> run_id])
                   /\ tt_entries' = tt_entries
                         \o EntryRows(population[best_idx], run_id, Len(tt_entries) + 1)
                   /\ result' = [ok |-> TRUE, run_id |-> run_id,
                                 saved |-> Len(population[best_idx])]
    /\ pc' = "class_returned"
    /\ UNCHANGED <<evalVars, genVars, gaVars, refVars, createVars, routeVars,
                   lookup, chrom, newpop, gen, locks>>

SpecClassGA ==
    InitClassGA /\ [][ClassStart \/ ClassEvaluate \/ ClassBreed
                        \/ ClassNextGeneration \/ ClassFinish]_vars

----------------------------------------------------------------------------
(* appV.move_entry: the drag-and-drop edit of one stored TimetableEntry *)

MaxMoveStart == 1
MaxMoveDuration == 2
MoveDays == {DAYS[1], DAYS[2]}

TimetableEntryRow(id, run_id, day, start_slot, duration, teacher_id, room_id, group_id) ==
    [id |-> id, run_id |-> run_id, day |-> day, start_slot |-> start_slot,
     duration |-> duration, course_id |-> id, teacher_id |-> teacher_id,
     room_id |-> room_id, group_id |-> group_id]

(* the slots range(e.start_slot, e.start_slot + e.duration) *)
EntrySlots(e) == e.start_slot..(e.start_slot + e.duration - 1)

(* detect_conflicts_for_run: the teacher, room or group keys (id, day, slot)   *)
(* met a second time among the entries of the run                              *)
detect_conflicts_for_run(rows, run_id) ==
    {<<field, i, j, s>> \in {"teacher_id", "room_id", "group_id"}
                              \X (DOMAIN rows) \X (DOMAIN rows) \X (0..(MaxMoveStart + MaxMoveDuration)) :
        /\ i < j
        /\ rows[i].run_id = run_id
        /\ rows[j].run_id = run_id
        /\ rows[i][field] = rows[j][field]
        /\ rows[i].day = rows[j].day
        /\ s \in EntrySlots(rows[i]) \cap EntrySlots(rows[j])}

(* the stored rows: entry 1 of teacher 1, room 1 and group 1 on the first day, *)
(* a second entry of the same or of a second run that shares at most one of    *)
(* them, without double-booking                                                *)
MoveStores ==
    {rows \in {<<TimetableEntryRow(1, 1, DAYS[1], 0, 1, 1, 1, 1),
                 TimetableEntryRow(2, run_id, day, start_slot, duration,
                                   trg[1], trg[2], trg[3])>> :
                   run_id \in 1..2, day \in MoveDays, start_slot \in 0..MaxMoveStart,
                   duration \in 1..MaxMoveDuration,
                   trg \in {<<1, 2, 2>>, <<2, 1, 2>>, <<2, 2, 1>>, <<2, 2, 2>>}} :
        \A run_id \in 1..2 : detect_conflicts_for_run(rows, run_id) = {}}

InitMove ==
    /\ pc = "move"
    /\ tt_entries \in MoveStores
    /\ tt_runs = [i \in 1..tt_entries[2].run_id |-> [id |-> i]]
    /\ locks \in {{}, {2}}
    /\ result = <<>>
    /\ lookup = <<>>
    /\ chrom = <<>>
    /\ newpop = <<>>
    /\ fitnesses = <<>>
    /\ gen = 0
    /\ best_chrom = <<>>
    /\ self = <<>>
    /\ GenIdle
    /\ EvalIdle
    /\ GAIdle
    /\ RefIdle
    /\ CreateIdle
    /\ RouteIdle

(* the JSON bodies: day, start_slot (absent: <<>>), duration (absent: <<>>,    *)
(* then the entry's duration is taken) and lock                                *)
MoveRequests ==
    [day : MoveDays,
     start_slot : {<<>>} \cup {<<s>> : s \in 0..MaxMoveStart},
     duration : {<<>>} \cup {<<d>> : d \in 0..MaxMoveDuration},
     lock : BOOLEAN]

(* ManualLock.query.filter_by(entry_id=entry.id).first() *)
is_locked_never(entry_id) == FALSE

is_locked(entry_id) == entry_id \in locks

(* the filter of the conflict query for slot s: another entry of that day      *)
(* with start_slot <= s and start_slot + duration - 1 >= s                     *)
covers_but_last(e, entry_id, new_day, s) ==
    /\ e.id # entry_id
    /\ e.day = new_day
    /\ e.start_slot <= s
    /\ e.start_slot + e.duration - 1 > s

covers(e, entry_id, new_day, s) ==
    /\ e.id # entry_id
    /\ e.day = new_day
    /\ e.start_slot <= s
    /\ e.start_slot + e.duration - 1 >= s

(* one request POST /api/timetable/entry/<entry_id>/move *)
MoveEntry ==
    /\ pc = "move"
    /\ \E entry_id \in 1..3, data \in MoveRequests :
          IF ~\E k \in DOMAIN tt_entries : tt_entries[k].id = entry_id
          THEN /\ result' = [status |-> 404, entry_id |-> entry_id, lock |-> data.lock]
               /\ UNCHANGED <<tt_entries, locks>>
          ELSE
            LET k == CHOOSE k \in DOMAIN tt_entries : tt_entries[k].id = entry_id
                entry == tt_entries[k]
            IN  IF data.start_slot = <<>>
                THEN \* int(None) raises TypeError
                     /\ result' = [status |-> 500, entry_id |-> entry_id,
                                   lock |-> data.lock]
                     /\ UNCHANGED <<tt_entries, locks>>
                ELSE
                  LET new_day == data.day
                      new_start == data.start_slot[1]
                      new_duration == IF data.duration = <<>> THEN entry.duration
                                      ELSE data.duration[1]
                  IN  IF is_locked(entry.id)
                      THEN /\ result' = [status |-> 400, entry_id |-> entry_id,
                                         lock |-> data.lock]
                           /\ UNCHANGED <<tt_entries, locks>>
                      ELSE IF \E s \in new_start..(new_start + new_duration - 1) :
                                 \E i \in DOMAIN tt_entries :
                                    covers(tt_entries[i], entry.id, new_day, s)
                      THEN /\ result' = [status |-> 400, entry_id |-> entry_id,
                                         lock |-> data.lock]
                           /\ UNCHANGED <<tt_entries, locks>>
                      ELSE /\ tt_entries' = [tt_entries EXCEPT
                                                ![k].day = new_day,
                                                ![k].start_slot = new_start,
                                                ![k].duration = new_duration]
                           /\ locks' = IF data.lock THEN locks \cup {entry.id} ELSE locks
                           /\ result' = [status |-> 200, entry_id |-> entry_id,
                                         lock |-> data.lock]
    /\ UNCHANGED <<pc, genVars, evalVars, gaVars, refVars, createVars, routeVars,
                   lookup, chrom, newpop, fitnesses, gen, best_chrom, tt_runs>>

SpecMove == InitMove /\ [][MoveEntry]_vars

----------------------------------------------------------------------------
(* genetic_algorithm.py: compute_fitness and validate_schedule on one          *)
(* chromosome                                                                  *)

MaxFitGenes == 2
MaxFitDuration == 2

(* teacher 1 with the hour limits given and teacher 2 without limits; course 1 *)
(* needs a lecture room, course 2 any room; a lecture room of 40 seats and a   *)
(* laboratory of 20; a group of 30 and a group of 10                           *)
FitnessLookups ==
    {[courses |-> <<CourseRow(1, 1, 1, "lecture", 0, 1), CourseRow(2, 1, 0, "", 0, 1),
                    CourseRow(3, 2, 0, "", 0, 1)>>,
      teachers |-> <<TeacherRow(1, limits[1], limits[2], limits[3]),
                     TeacherRow(2, 0, 0, 0)>>,
      rooms |-> <<RoomRow(1, 40, "lecture"), RoomRow(2, 20, "lab")>>,
      groups |-> <<GroupRow(1, 30), GroupRow(2, 10)>>,
      assignments |-> <<>>] :
        limits \in {<<0, 0, 0>>, <<1, 0, 1>>, <<0, 2, 0>>, <<2, 3, 0>>}}

(* the genes of the course: any group, teacher and room of the lookup, a start *)
(* slot inside or outside the day                                              *)
FitnessGenes(course_id, days) ==
    {[course_id |-> course_id, group_id |-> g, teacher_id |-> t, room_id |-> r,
      day |-> day, start_slot |-> start_slot, duration |-> duration] :
        g \in 1..2, t \in 1..2, r \in 1..2, day \in days,
        start_slot \in {0, 1, 2, SLOTS_PER_DAY}, duration \in 1..MaxFitDuration}

FitnessChromosomes ==
    UNION {{c \in [1..n -> FitnessGenes(1, {DAYS[1], DAYS[2]})
                             \cup FitnessGenes(2, {DAYS[1], DAYS[2]})
                             \cup FitnessGenes(3, {DAYS[1], DAYS[2]})] :
              /\ \A i \in 1..n : c[i].course_id = i
              /\ n > 0 => c[1].day = DAYS[1]} :
           n \in 0..MaxFitGenes}

InitClassFitness ==
    /\ pc = "class_check"
    /\ lookup \in FitnessLookups
    /\ chrom \in FitnessChromosomes
    /\ newpop = <<>>
    /\ fitnesses = <<>>
    /\ gen = 0
    /\ best_chrom = <<>>
    /\ result = <<>>
    /\ tt_runs = <<>>
    /\ tt_entries = <<>>
    /\ locks = {}
    /\ self = <<>>
    /\ GenIdle
    /\ EvalIdle
    /\ GAIdle
    /\ RefIdle
    /\ CreateIdle
    /\ RouteIdle

(* compute_fitness(chrom, lookup) and validate_schedule(chrom, lookup) *)
ClassCheck ==
    /\ pc = "class_check"
    /\ fitnesses' = <<compute_fitness(chrom, lookup)>>
    /\ result' = validate_schedule(chrom, lookup)
    /\ pc' = "class_checked"
    /\ UNCHANGED <<genVars, evalVars, gaVars, refVars, createVars, routeVars,
                   lookup, chrom, newpop, gen, best_chrom, tt_runs, tt_entries, locks>>

SpecClassFitness == InitClassFitness /\ [][ClassCheck]_vars

----------------------------------------------------------------------------
(* Properties *)

(* no two assigned activities that share a teacher, a room or a section are   *)
(* in the same (day, period)                                                   *)
NoDoubleBooking(sched) ==
    \A i, j \in 1..DictLen(sched) :
        (/\ i # j
         /\ \/ sched.keys[i][1] = sched.keys[j][1]
            \/ sched.keys[i][2] = sched.keys[j][2]
            \/ sched.keys[i][3] = sched.keys[j][3])
        => ~(/\ sched.val[i].day = sched.val[j].day
             /\ sched.val[i].period = sched.val[j].period)

(* C1: at every step of greedy_assignment and in the schedule it returns, no   *)
(* two assigned activities sharing a teacher, a room or a section have the     *)
(* same (day, period); the schedule holds only created activities.            *)
C1_GreedyNoDoubleBooking ==
    /\ NoDoubleBooking(schedule)
    /\ \A i \in 1..DictLen(schedule) :
          \E k \in 1..Len(activities) :
             /\ activities[k].id = schedule.keys[i]
             /\ activities[k].section_id = schedule.keys[i][1]
             /\ activities[k].teacher_id = schedule.keys[i][2]
             /\ activities[k].room_id = schedule.keys[i][3]

(* C1 witness: greedy_assignment has returned a schedule that holds two        *)
(* activities of one teacher, two of one room and two of one section.          *)
C1_Witness ==
    /\ pc = "greedy_done"
    /\ \E i, j \in 1..DictLen(schedule) :
          i # j /\ schedule.keys[i][2] = schedule.keys[j][2]
                /\ schedule.keys[i][1] # schedule.keys[j][1]
    /\ \E i, j \in 1..DictLen(schedule) :
          i # j /\ schedule.keys[i][3] = schedule.keys[j][3]
    /\ \E i, j \in 1..DictLen(schedule) :
          i # j /\ schedule.keys[i][1] = schedule.keys[j][1]

(* the dimensions double-booked among the activities at (day d, period p) *)
IdsAt(sched, d, p) ==
    {sched.keys[i] : i \in {j \in 1..DictLen(sched) :
                               sched.val[j].day = d /\ sched.val[j].period = p}}

DoubleBooked(A, field) == \E x, y \in A : x # y /\ x[field] = y[field]

DimensionName(field) ==
    CASE field = 1 -> "Section double-booking"
      [] field = 2 -> "Teacher double-booking"
      [] field = 3 -> "Room double-booking"

(* C2: validate_hard_constraints returns no violation iff the schedule has no  *)
(* teacher, room or section double-booking, and for every (day, period) and    *)
(* every dimension it returns exactly one violation if that dimension is       *)
(* double-booked there and none otherwise.                                     *)
C2_ValidateExact ==
    pc = "validated" =>
        LET sched == heap[population[1]]
            places == {<<sched.val[i].day, sched.val[i].period>> :
                          i \in 1..DictLen(sched)}
            count(pl, field) ==
                Cardinality({k \in DOMAIN violations :
                    /\ violations[k].description = DimensionName(field)
                    /\ Range(violations[k].activity_ids) = IdsAt(sched, pl[1], pl[2])})
            expected(pl, field) ==
                IF DoubleBooked(IdsAt(sched, pl[1], pl[2]), field) THEN 1 ELSE 0
        IN  /\ (violations = <<>>) <=> NoDoubleBooking(sched)
            /\ \A pl \in places : \A field \in 1..3 :
                  count(pl, field) = expected(pl, field)
            /\ \A k \in DOMAIN violations :
                  \E pl \in places :
                     Range(violations[k].activity_ids) = IdsAt(sched, pl[1], pl[2])

(* C2 witness: a validated schedule with one slot, reached through TimeSlots   *)
(* of different display time, in which all three dimensions are double-booked. *)
C2_Witness ==
    /\ pc = "validated"
    /\ Len(violations) = 3
    /\ \E i, j \in 1..DictLen(heap[1]) :
          /\ heap[1].val[i].day = heap[1].val[j].day
          /\ heap[1].val[i].period = heap[1].val[j].period
          /\ heap[1].val[i].start_time # heap[1].val[j].start_time

Feasible(sched) == validate_hard_constraints(sched) = <<>>

(* C3: every schedule without hard violations has a strictly greater fitness   *)
(* than every schedule (over the same activities) with a hard violation.       *)
C3_FeasibleOutranksInfeasible ==
    pc = "evaluated" =>
        \A i, j \in 1..Len(population) :
            (Feasible(heap[population[i]]) /\ ~Feasible(heap[population[j]]))
            => fitness_scores[i] > fitness_scores[j]

(* C4: every member of the population and every offspring assigns exactly the  *)
(* activity ids of the initial schedule.                                       *)
C4_ActivityIdsPreserved ==
    \A r \in Range(population) \cup Range(offspring) :
        DictKeySet(heap[r]) = DictKeySet(heap[1])

(* C5: the child crossover returns assigns exactly the activity ids of its     *)
(* parents.                                                                    *)
C5_CrossoverKeepsIds ==
    pc = "crossed" =>
        DictKeySet(heap[child_pair[1]]) = DictKeySet(heap[parents[1]])

(* the activity at index i shares its (day, period) with no other activity     *)
(* that has its teacher, its room or its section                               *)
AloneInSlot(sched, i) ==
    \A j \in 1..DictLen(sched) :
        (/\ j # i
         /\ \/ sched.keys[i][1] = sched.keys[j][1]
            \/ sched.keys[i][2] = sched.keys[j][2]
            \/ sched.keys[i][3] = sched.keys[j][3])
        => ~(/\ sched.val[i].day = sched.val[j].day
             /\ sched.val[i].period = sched.val[j].period)

(* C6: every move the refinement applies changes one activity's slot to a slot *)
(* where no other activity with its teacher, room or section is, and a         *)
(* schedule without double booking on entry has none after any move and on     *)
(* return.                                                                     *)
C6_RefinementKeepsFeasible ==
    /\ [](pc \in {"refine", "refined"} =>
            (NoDoubleBooking(heap[1]) => NoDoubleBooking(refined_schedule)))
    /\ [][(pc = "refine" /\ refined_schedule' # refined_schedule) =>
            /\ refined_schedule'.keys = refined_schedule.keys
            /\ \A j \in 1..DictLen(refined_schedule) :
                  j # ref_cursor => refined_schedule'.val[j] = refined_schedule.val[j]
            /\ AloneInSlot(refined_schedule', ref_cursor)]_vars

(* C6 witness: the refinement returned, having moved an activity of a schedule *)
(* without double booking in which two activities share a resource.            *)
C6_Witness ==
    /\ pc = "refined"
    /\ refined_schedule # heap[1]
    /\ NoDoubleBooking(heap[1])
    /\ DictLen(heap[1]) = 2

(* C7: the score the refinement computes for the schedule after a move is not  *)
(* less than the score it computed for the schedule before that move.          *)
C7_ScoreNeverDecreases ==
    (pc \in {"refine", "refined"} /\ prev_moved) => best_score >= prev_score

(* C8: elitist_replacement puts EliteSize members of the population first, no  *)
(* other member having a greater fitness, leaves them as they were, fills the  *)
(* other places with offspring, no other offspring having a greater fitness,   *)
(* and returns PopulationSize members.                                         *)
C8_ElitistReplacement ==
    [][pc = "ga_replace" =>
        \E E \in SUBSET (DOMAIN population), O \in SUBSET (DOMAIN offspring) :
            /\ Len(population') = PopulationSize
            /\ Cardinality(E) = EliteSize
            /\ Cardinality(O) = PopulationSize - EliteSize
            /\ {population'[k] : k \in 1..EliteSize} = {population[i] : i \in E}
            /\ {population'[k] : k \in (EliteSize + 1)..PopulationSize}
                  = {offspring[i] : i \in O}
            /\ \A i \in E : \A j \in DOMAIN population \ E :
                  fitness_scores[i] >= fitness_scores[j]
            /\ \A i \in O : \A j \in DOMAIN offspring \ O :
                  offspring_fitness'[i] >= offspring_fitness'[j]
            /\ \A i \in E : heap'[population[i]] = heap[population[i]]
            /\ \A k, l \in 1..PopulationSize : k # l => population'[k] # population'[l]
    ]_vars

(* C8 witness: a replacement kept as elite a member that was not the first of  *)
(* the population and of strictly greater fitness than the first, and left out *)
(* the first offspring for offspring of greater fitness.                       *)
C8_Witness ==
    /\ pc = "ga_done"
    /\ generation = 1
    /\ Len(population) = PopulationSize
    /\ \E i \in 2..Len(fitness_scores) :
          /\ fitness_scores[i] > fitness_scores[1]
          /\ population[1] # 2
          /\ population[1] \notin Range(offspring)
    /\ offspring[1] \notin Range(population)
    /\ \E k \in 2..Len(offspring) : offspring_fitness[k] > offspring_fitness[1]

(* C9: crossover and mutate leave every existing schedule object as it was;    *)
(* the members of the population are pairwise distinct objects, none of them   *)
(* the initial schedule; the children and the offspring are objects distinct   *)
(* from one another, from every parent and from every member.                  *)
C9_CopyOnWrite ==
    /\ [](/\ \A i, j \in DOMAIN population : i # j => population[i] # population[j]
          /\ 1 \notin Range(population)
          /\ pc \in {"ga_cross", "ga_mutate", "ga_replace"} =>
                /\ \A i, j \in DOMAIN offspring : i # j => offspring[i] # offspring[j]
                /\ \A i, j \in DOMAIN child_pair : i # j => child_pair[i] # child_pair[j]
                /\ (Range(offspring) \cup Range(child_pair))
                      \cap (Range(parents) \cup Range(population) \cup {1}) = {}
                /\ pc = "ga_mutate" => Range(offspring) \cap Range(child_pair) = {})
    /\ [][\A r \in DOMAIN heap : r \in DOMAIN heap' /\ heap'[r] = heap[r]]_vars

(* C9 witness: the loop ended with a member that is an offspring differing     *)
(* from every parent, the parents being as they were when selected.            *)
C9_Witness ==
    /\ pc = "ga_done"
    /\ generation = 1
    /\ \E k \in DOMAIN population :
          /\ population[k] \in Range(offspring)
          /\ \A r \in Range(parents) : heap[population[k]] # heap[r]
          /\ DictKeySet(heap[population[k]]) = DictKeySet(heap[1])

C11_OrderedWithoutBreaks ==
    pc = "slots_done" =>
        LET day_index(i) == CHOOSE k \in DOMAIN self.working_days :
                                self.working_days[k] = slot_catalog[i].day
        IN  /\ \A i, j \in DOMAIN slot_catalog :
                  i < j => \/ day_index(i) < day_index(j)
                           \/ /\ day_index(i) = day_index(j)
                              /\ slot_catalog[i].period < slot_catalog[j].period
            /\ \A i \in DOMAIN slot_catalog : slot_catalog[i].period # LunchPeriod


(* the activities created for section si and subject sj, and the occurrences   *)
(* of the pair left without a teacher                                          *)
CreatedFor(g, acts, si, sj) ==
    Cardinality({k \in DOMAIN acts :
        /\ acts[k].section_id = g.sections[si].id
        /\ acts[k].subject_id = g.subjects_or_courses[sj].id})

SkippedFor(skips, si, sj) ==
    Cardinality({k \in DOMAIN skips : skips[k][1] = si /\ skips[k][2] = sj})

(* C12: when create_activities has ended, every section and every subject      *)
(* relevant to it have created + skipped = credits, the skipped occurrences     *)
(* being those for which no teacher able to teach the subject was under the     *)
(* load cap.                                                                    *)
C12_CreditsPerPair ==
    pc \in {"created", "raised"} =>
        \A si \in DOMAIN self.sections :
            \A sj \in Range(RelevantSubjects(self, self.sections[si])) :
                CreatedFor(self, activities, si, sj) + SkippedFor(skipped, si, sj)
                    = self.subjects_or_courses[sj].credits


(* C13: the room selected for a section is never one whose capacity is below   *)
(* the section's size while some room of sufficient capacity exists, whatever  *)
(* the usage counts of the rooms.                                              *)
C13_CapacityRespected ==
    pc = "selected" =>
        LET section == self.sections[1]
            enough(c) == c.capacity >= section.capacity
        IN  (\E i \in DOMAIN self.classrooms : enough(self.classrooms[i]))
            => \A i \in DOMAIN self.classrooms :
                  self.classrooms[i].id = suitable_classroom => enough(self.classrooms[i])


(* C14: given a slot list that is not empty, the schedule fallback_assignment  *)
(* returns holds an activity of every section that has an activity, and no two *)
(* activities of one section in the same slot.                                 *)
C14_FallbackOnePerSection ==
    (pc = "fallback_done" /\ slot_catalog # <<>>) =>
        /\ \A k \in DOMAIN activities :
              \E i \in 1..DictLen(schedule) :
                 get_section_id(schedule.keys[i]) = activities[k].section_id
        /\ \A i, j \in 1..DictLen(schedule) :
              (i # j /\ get_section_id(schedule.keys[i]) = get_section_id(schedule.keys[j]))
              => ~SlotEq(schedule.val[i], schedule.val[j])


(* C15: generate() ends by returning; it returns the empty list exactly when   *)
(* no activity was assigned, and otherwise one entry for each assigned         *)
(* activity and no other entry.                                                *)
C15_EmptyIffNothingAssigned ==
    pc \in {"returned", "raised"} =>
        /\ (pc = "returned" /\ entries = <<>>) <=> (DictLen(schedule) = 0)
        /\ pc = "returned" =>
              /\ Len(entries) = DictLen(schedule)
              /\ \A i \in 1..Len(entries) :
                    /\ entries[i].section_id = schedule.keys[i][1]
                    /\ entries[i].teacher_id = schedule.keys[i][2]
                    /\ entries[i].classroom_id = schedule.keys[i][3]
                    /\ entries[i].day = schedule.val[i].day
                    /\ entries[i].period = schedule.val[i].period

(* C17: with no room, create_activities produces no activity and generate()    *)
(* returns the empty list; it does not raise.                                  *)
C17_NoRoomsEmptyResult ==
    self.classrooms = <<>> =>
        /\ activities = <<>>
        /\ pc # "raised"
        /\ pc = "returned" => entries = <<>>


(* C16: when the working days are empty, or there is no teacher, no classroom  *)
(* or no subject/course, the request constructs no activity, deletes and       *)
(* writes no stored entry, and its response is an error.                       *)
C16_FailFastOnConfiguration ==
    (\/ ParseWorkingDays(db.working_days_raw) = <<>>
     \/ db.teachers = <<>>
     \/ db.classrooms = <<>>
     \/ db.subjects_or_courses = <<>>)
    => /\ activities = <<>>
       /\ db_entries = db.timetable_entries
       /\ pc = "responded" => response >= 400


(* C18: for two sections, two teachers who both teach the one subject of two   *)
(* weekly classes, two rooms of sufficient capacity and five working days,     *)
(* create_activities creates exactly 4 activities, greedy_assignment assigns   *)
(* all 4 and the schedule has no hard violation.                               *)
C18_TwoSectionsAllAssigned ==
    (pc # "generate" /\ self = TwoSectionsInput(self.app_mode)) =>
        /\ pc # "raised"
        /\ Len(activities) = 4
        /\ Cardinality({activities[k].id : k \in DOMAIN activities}) = 4
        /\ pc \in {"greedy_done", "returned"} =>
              /\ DictKeySet(schedule) = {activities[k].id : k \in DOMAIN activities}
              /\ DictLen(schedule) = 4
              /\ validate_hard_constraints(schedule) = <<>>

(* C18 witness: generate() returned four entries for that input. *)
C18_Witness ==
    /\ pc = "returned"
    /\ self = TwoSectionsInput(self.app_mode)
    /\ Len(entries) = 4
    /\ \E i, j \in 1..Len(entries) : entries[i].section_id # entries[j].section_id

(* C19: every step of greedy_assignment gives the activity it handles the first *)
(* slot, by the order of the working days and then by ascending period, the     *)
(* lunch period left out, at which no activity assigned so far has its teacher, *)
(* its room or its section; it leaves the activity unassigned only if there is  *)
(* no such slot; the assignments made before are unchanged.                     *)
C19_GreedyFirstFit ==
    [][(pc = "greedy" /\ cursor' = cursor + 1) =>
        LET activity == activities[cursor]
            days == self.working_days
            n == DictLen(schedule)
            Busy(d, p) ==
                \E i \in 1..n :
                    /\ schedule.val[i].day = days[d]
                    /\ schedule.val[i].period = p
                    /\ \/ schedule.keys[i][1] = activity.section_id
                       \/ schedule.keys[i][2] = activity.teacher_id
                       \/ schedule.keys[i][3] = activity.room_id
            Free == {x \in (DOMAIN days) \X ((1..periods_per_day) \ {LunchPeriod}) :
                        ~Busy(x[1], x[2])}
        IN  IF Free = {}
            THEN schedule' = schedule
            ELSE LET first == CHOOSE x \in Free :
                                 \A y \in Free : \/ x[1] < y[1]
                                                 \/ x[1] = y[1] /\ x[2] <= y[2]
                 IN  /\ DictLen(schedule') = n + 1
                     /\ \A i \in 1..n : /\ schedule'.keys[i] = schedule.keys[i]
                                        /\ schedule'.val[i] = schedule.val[i]
                     /\ schedule'.keys[n + 1] = activity.id
                     /\ schedule'.val[n + 1].day = days[first[1]]
                     /\ schedule'.val[n + 1].period = first[2]
    ]_vars

(* C19 witness: greedy_assignment returned, having passed over the lunch period *)
(* and left an activity unassigned for which no slot was free.                  *)
C19_Witness ==
    /\ pc = "greedy_done"
    /\ 0 < DictLen(schedule)
    /\ DictLen(schedule) < Len(activities)
    /\ \E i \in 1..DictLen(schedule) : schedule.val[i].period = LunchPeriod + 1
    /\ \A i \in 1..DictLen(schedule) : schedule.val[i].period # LunchPeriod

(* the activities given to the teacher of id t *)
GivenTo(acts, t) == Cardinality({k \in DOMAIN acts : acts[k].teacher_id = t})

(* teacher teaches the subject/course of id sid *)
Teaches(g, teacher, sid) ==
    sid \in (IF g.app_mode = "school" THEN teacher.subjects ELSE teacher.courses)

(* C20: every activity create_activities creates has as teacher the first       *)
(* teacher of the list who can teach its subject and had fewer than 30          *)
(* activities when selected, and an occurrence is left out only when there is   *)
(* no such teacher; no teacher has more than 30 activities and every activity's *)
(* teacher can teach its subject.                                               *)
C20_FirstTeacherUnderCap ==
    /\ [](pc \in {"create", "created", "raised"} =>
            /\ \A i \in DOMAIN self.teachers :
                  GivenTo(activities, self.teachers[i].id) <= TeacherLoadCap
            /\ \A k \in DOMAIN activities :
                  \E i \in DOMAIN self.teachers :
                     /\ self.teachers[i].id = activities[k].teacher_id
                     /\ Teaches(self, self.teachers[i], activities[k].subject_id))
    /\ [][(pc = "create" /\ cursor' = cursor + 1) =>
            LET occ == Occurrences(self)[cursor + 1]
                sid == self.subjects_or_courses[occ[2]].id
                able == {i \in DOMAIN self.teachers :
                            /\ Teaches(self, self.teachers[i], sid)
                            /\ GivenTo(activities, self.teachers[i].id) < TeacherLoadCap}
            IN  IF able = {}
                THEN activities' = activities
                ELSE \/ pc' = "raised"
                     \/ /\ Len(activities') = Len(activities) + 1
                        /\ activities'[Len(activities')].subject_id = sid
                        /\ \E i \in able :
                              /\ \A j \in able : i <= j
                              /\ activities'[Len(activities')].teacher_id
                                    = self.teachers[i].id
      ]_vars

(* C20 witness: create_activities returned with the first teacher at the load  *)
(* cap and the occurrences after his thirtieth given to the second teacher.    *)
C20_Witness ==
    /\ pc = "created"
    /\ Len(self.teachers) = 2
    /\ GivenTo(activities, self.teachers[1].id) = TeacherLoadCap
    /\ GivenTo(activities, self.teachers[2].id) > 0


(* C21: genetic_algorithm_optimization reaches its end.  In every generation    *)
(* the evaluation comes first, then the selection, then for each pair of       *)
(* children the recombination followed by their mutation, then the             *)
(* replacement; the loop is left after self.generations generations, or right  *)
(* after an evaluation with which the best fitness seen reaches the threshold. *)
(* After every evaluation the best fitness is the greatest recorded so far and *)
(* the best individual is a member recorded with it; the first evaluation      *)
(* records the initial schedule as the first member.  The schedule returned is *)
(* that best individual (by value).                                            *)
C21_GATerminatesWithBest ==
    /\ <>(pc = "ga_returned")
    /\ [](/\ generation <= self.generations
          /\ pc \in {"ga_done", "ga_returned"} =>
                \/ generation = self.generations
                \/ best_fitness >= EarlyStopFitness /\ fitness_scores # <<>>
          /\ pc = "ga_returned" =>
                /\ best_individual # 0
                /\ heap[optimized_schedule] = heap[best_individual]
                /\ \A i \in DOMAIN fitness_scores : fitness_scores[i] <= best_fitness)
    /\ [][/\ <<pc, pc'>> \in {<<"ga_start", "ga_loop">>, <<"ga_loop", "ga_select">>,
                              <<"ga_loop", "ga_done">>, <<"ga_select", "ga_cross">>,
                              <<"ga_cross", "ga_mutate">>, <<"ga_mutate", "ga_cross">>,
                              <<"ga_mutate", "ga_replace">>, <<"ga_replace", "ga_loop">>,
                              <<"ga_replace", "ga_done">>, <<"ga_done", "ga_returned">>}
          /\ (pc = "ga_loop" /\ pc' = "ga_done") <=> (pc = "ga_loop" /\ best_fitness' >= EarlyStopFitness)
          /\ (pc = "ga_mutate" /\ pc' = "ga_replace") <=>
                (pc = "ga_mutate" /\ Len(offspring') >= Len(parents))
          /\ generation' = IF pc = "ga_replace" THEN generation + 1 ELSE generation
          /\ IF pc = "ga_loop"
             THEN /\ Len(fitness_scores') = Len(population)
                  /\ \A i \in DOMAIN population : fitness_scores'[i] <= best_fitness'
                  /\ best_individual # 0 => best_fitness' >= best_fitness
                  /\ \/ /\ best_individual # 0
                        /\ best_fitness' = best_fitness
                        /\ best_individual' = best_individual
                     \/ \E i \in DOMAIN population :
                           /\ best_individual' = population[i]
                           /\ best_fitness' = fitness_scores'[i]
                  /\ generation = 0 =>
                        /\ heap[population[1]] = heap[1]
                        /\ best_fitness' >= fitness_scores'[1]
             ELSE UNCHANGED <<best_fitness, best_individual>>
          /\ best_individual # 0 => heap'[best_individual] = heap[best_individual]
      ]_vars

(* C21 witness: the loop ended early in its second generation, with a best      *)
(* individual found in that generation, of greater fitness than the initial    *)
(* schedule, and that individual was returned.                                  *)
C21_Witness ==
    /\ pc = "ga_returned"
    /\ generation = 1
    /\ self.generations = 2
    /\ best_fitness >= EarlyStopFitness
    /\ optimized_schedule = best_individual
    /\ best_individual \in Range(offspring)
    /\ IndividualFitness(heap[1]) = {-(HardPenalty * ScoreScale)}


(* the (course_id, group_id) of the genes of a chromosome, index by index *)
Shape(c) == [i \in DOMAIN c |-> <<c[i].course_id, c[i].group_id>>]

(* C22: the chromosomes of the initial population of run_class_timetable have  *)
(* one length and the same (course_id, group_id) at every index, and every     *)
(* chromosome of every later population, and of the population being filled,   *)
(* has that length and those (course_id, group_id) at every index.             *)
C22_ChromosomeShapeKept ==
    [][/\ pc = "class_run" =>
             \A c, d \in Range(population') : Shape(c) = Shape(d)
       /\ pc \in {"class_eval", "class_breed", "class_final"} =>
             \A c \in Range(population') \cup Range(newpop') \cup Range(newpop) :
                Shape(c) = Shape(population[1])
      ]_vars

(* C22 witness: in the second generation the population being filled holds a   *)
(* chromosome of two genes that is no member of the population it was bred     *)
(* from: crossover or mutate made it.                                          *)
C22_Witness ==
    /\ pc = "class_breed"
    /\ gen = 1
    /\ \E k \in DOMAIN newpop :
          /\ Len(newpop[k]) = 2
          /\ newpop[k] \notin Range(population)
          /\ newpop[k][1].course_id # newpop[k][2].course_id


(* C23: can_exchange is false for every schedule and every two distinct        *)
(* activities of it, find_compatible_activities is empty for every activity,   *)
(* and the mutation 'exchange' returns a copy equal to the individual.         *)
C23_ExchangeNeverApplies ==
    /\ pc \in {"exchange", "exchanged"} =>
          \A a1, a2 \in DictKeySet(heap[1]) :
             /\ a1 # a2 => ~can_exchange(a1, a2, heap[1])
             /\ find_compatible_activities(a1, heap[1]) = {}
    /\ pc = "exchanged" => heap[2] = heap[1]

(* C23 witness: the mutation 'exchange' was applied to an activity of a        *)
(* schedule of two activities in different slots, with different teachers,     *)
(* rooms and sections, and of no other activity in either slot.                *)
C23_Witness ==
    /\ pc = "exchanged"
    /\ \E i, j \in 1..DictLen(heap[1]) :
          /\ ~SharesResource(heap[1].keys[i], heap[1].keys[j])
          /\ ~SlotEq(heap[1].val[i], heap[1].val[j])
          /\ \A k \in 1..DictLen(heap[1]) :
                k \notin {i, j} => /\ ~SlotEq(heap[1].val[k], heap[1].val[i])
                                   /\ ~SlotEq(heap[1].val[k], heap[1].val[j])


(* C24: every slot a schedule under construction or refinement holds for an    *)
(* activity is on one of the working days and is not the lunch period.         *)
C24_WorkingDayNoLunch ==
    \A sched \in {schedule, refined_schedule} :
        \A i \in 1..DictLen(sched) :
            /\ sched.val[i].period # LunchPeriod
            /\ \E d \in DOMAIN self.working_days : self.working_days[d] = sched.val[i].day


(* C25: when the entries returned by the generator hold no teacher, room or     *)
(* section double-booking and all their ids are ids of existing records, a      *)
(* successful generate_timetable request stores every one of them: as many      *)
(* timetable entries are saved as the generator returned, entries of different  *)
(* sections in the same (day, period) included                                  *)
EntriesDisjoint(es) ==
    \A i, j \in 1..Len(es) :
        (i < j /\ es[i].day = es[j].day /\ es[i].period = es[j].period)
            => /\ es[i].teacher_id # es[j].teacher_id
               /\ es[i].classroom_id # es[j].classroom_id
               /\ es[i].section_id # es[j].section_id

IdsExist(es) ==
    \A i \in 1..Len(es) :
        /\ \E t \in 1..Len(db.teachers) : db.teachers[t].id = es[i].teacher_id
        /\ \E r \in 1..Len(db.classrooms) : db.classrooms[r].id = es[i].classroom_id
        /\ \E c \in 1..Len(db.sections) : db.sections[c].id = es[i].section_id
        /\ \E u \in 1..Len(db.subjects_or_courses) :
               db.subjects_or_courses[u].id =
                   IF db.app_mode = "school" THEN es[i].subject_id ELSE es[i].course_id

C25_AllEntriesSaved ==
    (pc = "responded" /\ response = 200 /\ EntriesDisjoint(entries) /\ IdsExist(entries))
        => Len(db_entries) = Len(entries)


(* C26: a generate_timetable request that fails after its input checks passed   *)
(* (error response 500) leaves the stored timetable as it was: the timetable    *)
(* entries stored before the request are all still stored afterwards            *)
C26_FailureKeepsStoredEntries ==
    (pc = "responded" /\ response = 500) => db_entries = db.timetable_entries


(* C27: from stored entries without teacher, room or group double-booking,      *)
(* every sequence of move_entry requests keeps every run free of teacher, room  *)
(* and group double-booking; an entry changes only by an accepted move whose    *)
(* target slots no other entry of the target day covers, and a request that is  *)
(* not accepted leaves every entry's day, start_slot and duration as they were  *)
C27_MovesKeepNoDoubleBooking ==
    /\ [](\A run_id \in 1..2 : detect_conflicts_for_run(tt_entries, run_id) = {})
    /\ [][/\ result'.status # 200 => tt_entries' = tt_entries
          /\ \A k \in DOMAIN tt_entries :
                tt_entries'[k] # tt_entries[k]
                    => /\ result'.status = 200
                       /\ result'.entry_id = tt_entries[k].id
                       /\ \A i \in DOMAIN tt_entries :
                             (i # k /\ tt_entries[i].day = tt_entries'[k].day)
                                 => EntrySlots(tt_entries[i]) \cap EntrySlots(tt_entries'[k]) = {}]_vars

C27_Witness ==
    /\ pc = "move"
    /\ result # <<>>
    /\ result.status = 200
    /\ result.entry_id = 1
    /\ tt_entries[1].day = DAYS[2]
    /\ tt_entries[2].day = DAYS[2]
    /\ tt_entries[2].run_id = 1
    /\ tt_entries[2].teacher_id = tt_entries[1].teacher_id
    /\ tt_entries[1].start_slot = tt_entries[2].start_slot + tt_entries[2].duration
    /\ tt_entries[1].duration = MaxMoveDuration

(* C28: an entry with a ManualLock never changes: every move request for it is  *)
(* answered with an error and its row stays as it was; a lock is never removed, *)
(* and a move accepted with lock = true leaves the entry locked, so that every  *)
(* later move request for it is rejected                                        *)
C28_LockedEntryNeverMoves ==
    [][/\ \A k \in DOMAIN tt_entries :
             tt_entries[k].id \in locks => tt_entries'[k] = tt_entries[k]
       /\ result'.entry_id \in locks => result'.status \in {400, 500}
       /\ locks \subseteq locks'
       /\ (result'.status = 200 /\ result'.lock) => result'.entry_id \in locks']_vars

C28_Witness ==
    /\ pc = "move"
    /\ result # <<>>
    /\ result.status = 400
    /\ result.entry_id = 1
    /\ 1 \in locks
    /\ tt_entries[1].day = DAYS[2]
    /\ \A i \in DOMAIN tt_entries : i # 1 => tt_entries[i].day = DAYS[1]


(* C29: compute_fitness and validate_schedule agree on feasibility: for every   *)
(* chromosome validate_schedule reports no violation exactly when               *)
(* compute_fitness adds no HARD_PENALTY term, so that the fitness of a valid    *)
(* chromosome is the sum of its priority rewards and gap penalties alone        *)
C29_FitnessAgreesWithValidation ==
    pc = "class_checked"
        => /\ result.valid <=> HardTerms(chrom, lookup) = 0
           /\ result.valid <=> Len(result.violations) = 0
           /\ result.valid
                 <=> fitnesses[1] = PriorityReward(chrom, lookup) + GapPenalty(chrom, lookup)

(* an infeasible chromosome whose only flaw is the weekly hour limit of its     *)
(* teacher: each function reports it once                                       *)
C29_Witness ==
    /\ pc = "class_checked"
    /\ Len(chrom) = 2
    /\ ~result.valid
    /\ Len(result.violations) = 1
    /\ result.violations[1].kind = "exceeds max_hours_per_week"
    /\ HardTerms(chrom, lookup) = 1
    /\ fitnesses[1] < HARD_PENALTY \div 2


(* C30: run_class_timetable saves nothing before it returns; it returns the     *)
(* chromosome of greatest fitness of the final population; when                 *)
(* validate_schedule finds a violation in it the result is ok = False with the  *)
(* violations and no TimetableRun and no TimetableEntry exists; otherwise one   *)
(* run exists and exactly one TimetableEntry of that run per gene of the best   *)
(* chromosome                                                                   *)
C30_SavedOnlyWhenValid ==
    /\ pc # "class_returned" => (tt_runs = <<>> /\ tt_entries = <<>>)
    /\ pc = "class_returned" =>
          LET checked == validate_schedule(best_chrom, lookup)
          IN  /\ \E i \in DOMAIN population :
                    /\ population[i] = best_chrom
                    /\ \A j \in DOMAIN population :
                          compute_fitness(population[j], lookup)
                              <= compute_fitness(best_chrom, lookup)
              /\ IF Len(checked.violations) > 0
                 THEN /\ result.ok = FALSE
                      /\ result.violations = checked.violations
                      /\ tt_runs = <<>>
                      /\ tt_entries = <<>>
                 ELSE /\ result.ok = TRUE
                      /\ Len(tt_runs) = 1
                      /\ result.run_id = tt_runs[1].id
                      /\ result.saved = Len(best_chrom)
                      /\ Len(tt_entries) = Len(best_chrom)
                      /\ \A k \in DOMAIN best_chrom :
                            /\ tt_entries[k].run_id = tt_runs[1].id
                            /\ tt_entries[k].course_id = best_chrom[k].course_id
                            /\ tt_entries[k].group_id = best_chrom[k].group_id
                            /\ tt_entries[k].teacher_id = best_chrom[k].teacher_id
                            /\ tt_entries[k].room_id = best_chrom[k].room_id
                            /\ tt_entries[k].day = best_chrom[k].day
                            /\ tt_entries[k].start_slot = best_chrom[k].start_slot
                            /\ tt_entries[k].duration = best_chrom[k].duration

(* a run of two generations whose best final chromosome double-books the       *)
(* teacher: refused, with the violations returned and nothing saved            *)
C30_Witness ==
    /\ pc = "class_returned"
    /\ gen = ClassGenerations
    /\ Len(best_chrom) = 2
    /\ result.ok = FALSE
    /\ \E v \in DOMAIN result.violations :
           result.violations[v].kind = "teacher double-booked"
    /\ tt_runs = <<>>
    /\ tt_entries = <<>>

=============================================================================
